---- MODULE Spec2Model ----
(***************************************************************************)
(* ACIP identity-verification workflow (backend/app).                      *)
(*                                                                         *)
(* The model follows one case from its creation through the background    *)
(* pipeline (process_case_workflow -> ACIPWorkflow.start_case), the        *)
(* human-action endpoint (perform_action) and the resume task              *)
(* (resume_workflow_task -> ACIPWorkflow.resume_with_human_input).         *)
(*                                                                         *)
(* Scores are integers in percent (0.5 is 50, 0.92 is 92).                 *)
(* Python None is a record whose field present is FALSE, so that every     *)
(* value of a field has one shape.                                         *)
(***************************************************************************)
EXTENDS Integers, Sequences, FiniteSets, TLC

\* ------------------------------------------------------------------ bounds

\* perform_action requests the model lets clients submit for the case
MaxRequests == 2

\* activity_logger.log calls the model lets the logger's callers make
MaxLogs == 3

\* direct resume_with_human_input calls the model lets an engine client make
MaxResumes == 2

\* ------------------------------------------------------- program constants

\* document_inspector.py:184  quality_score < 0.5 fails the inspection
QualityMin == 50
\* compliance_officer.py:154  quality >= 0.9 is a mitigating factor
QualityHigh == 90
\* compliance_officer.py:156  quality < 0.7 is a risk factor
QualityLow == 70
\* external_verifier.py:285  more than 2 discrepancies is NO_MATCH
MaxPartialDiscrepancies == 2

\* -------------------------------------------------------------- the inputs

\* What the providers can see in a document and its customer record:
\*   quality      the image-quality score, in percent
\*   extract      "ok", or "error" when the vision call or its JSON parse fails
\*   doc_number   the document carries a document/ID number
\*   missing      a required field (first_name, last_name, dob, document_type)
\*                is absent from the extraction
\*   pep, sanctioned   the extracted name hits the PEP / sanctions screening
\*   db           a customer record was loaded (customer_db_data is not None)
\*   disc         discrepancies _verify_against_database finds against it
Scenario(q, e, dn, ms, p, s, d, n) ==
    [quality |-> q, extract |-> e, doc_number |-> dn, missing |-> ms,
     pep |-> p, sanctioned |-> s, db |-> d, disc |-> n]

Scenarios ==
    { Scenario(30, "ok",    TRUE,  FALSE, FALSE, FALSE, TRUE,  0),
      Scenario(92, "error", TRUE,  FALSE, FALSE, FALSE, TRUE,  0),
      Scenario(92, "ok",    TRUE,  FALSE, FALSE, FALSE, TRUE,  0),
      Scenario(60, "ok",    TRUE,  TRUE,  FALSE, FALSE, TRUE,  1),
      Scenario(92, "ok",    TRUE,  FALSE, FALSE, FALSE, TRUE,  3),
      Scenario(92, "ok",    FALSE, FALSE, FALSE, FALSE, TRUE,  0),
      Scenario(92, "ok",    TRUE,  FALSE, TRUE,  FALSE, TRUE,  0),
      Scenario(92, "ok",    TRUE,  FALSE, FALSE, TRUE,  TRUE,  0),
      Scenario(92, "ok",    TRUE,  FALSE, TRUE,  TRUE,  TRUE,  3),
      Scenario(92, "ok",    TRUE,  FALSE, FALSE, FALSE, FALSE, 0) }

\* ------------------------------------------------------ Document Inspector

NoInspection ==
    [present |-> FALSE, success |-> FALSE, quality_score |-> 0,
     has_data |-> FALSE, doc_number |-> FALSE, pep |-> FALSE,
     sanctioned |-> FALSE, issues |-> <<>>, requires_resubmission |-> FALSE]

\* DocumentInspectorAgent._validate_fields
ValidateFields(doc) ==
    (IF doc.missing THEN <<"Missing required field">> ELSE <<>>)
    \o (IF ~doc.doc_number THEN <<"Missing document/ID number">> ELSE <<>>)

\* DocumentInspectorAgent.inspect: the result dictionary
Inspect(doc) ==
    IF doc.quality < QualityMin
    THEN [NoInspection EXCEPT
            !.present = TRUE, !.quality_score = doc.quality,
            !.issues = <<"Image quality too low for reliable extraction">>,
            !.requires_resubmission = TRUE]
    ELSE IF doc.extract = "error"
    THEN [NoInspection EXCEPT
            !.present = TRUE, !.quality_score = doc.quality,
            !.issues = <<"Extraction failed">>]
    ELSE [present |-> TRUE, success |-> TRUE, quality_score |-> doc.quality,
          has_data |-> TRUE, doc_number |-> doc.doc_number, pep |-> doc.pep,
          sanctioned |-> doc.sanctioned, issues |-> ValidateFields(doc),
          requires_resubmission |-> FALSE]

\* The activity entries inspect logs, in order
InspectLog(doc) ==
    << [agent |-> "document_inspector", action |-> "Extracting Data",
        status |-> "in_progress"],
       IF Inspect(doc).success
       THEN [agent |-> "document_inspector", action |-> "Extraction Complete",
             status |-> "success"]
       ELSE [agent |-> "document_inspector", action |-> "Extraction Failed",
             status |-> "error"] >>

\* ------------------------------------------------------- External Verifier

NoVerification ==
    [present |-> FALSE, overall_status |-> "PENDING", dvs_verified |-> FALSE,
     db_status |-> "NONE", discrepancies |-> 0, is_pep |-> FALSE,
     is_sanctioned |-> FALSE, risk_indicators |-> <<>>,
     requires_human_review |-> FALSE]

\* external_verification_node's result when the inspection failed
SkippedVerification ==
    [NoVerification EXCEPT !.present = TRUE, !.overall_status = "SKIPPED"]

\* A faulty _determine_overall_status that looks at the DVS check before the
\* two screenings; C17 rules it out
DetermineOverallStatus_dvs_first(r) ==
    IF ~r.dvs_verified
    THEN [r EXCEPT !.overall_status = "NO_MATCH", !.requires_human_review = TRUE,
                   !.risk_indicators = <<"DVS_FAILED">>]
    ELSE IF r.is_sanctioned
    THEN [r EXCEPT !.overall_status = "FLAGGED", !.requires_human_review = TRUE,
                   !.risk_indicators = <<"SANCTIONS_MATCH">>]
    ELSE IF r.is_pep
    THEN [r EXCEPT !.overall_status = "FLAGGED", !.requires_human_review = TRUE,
                   !.risk_indicators = <<"PEP_MATCH">>]
    ELSE IF r.db_status # "NONE" /\ r.discrepancies > 0
    THEN [r EXCEPT !.overall_status =
                       IF r.discrepancies > 2
                       THEN "NO_MATCH" ELSE "PARTIAL_MATCH",
                   !.requires_human_review = TRUE,
                   !.risk_indicators = <<"DATABASE_DISCREPANCY">>]
    ELSE [r EXCEPT !.overall_status = "VERIFIED",
                   !.requires_human_review = FALSE,
                   !.risk_indicators = <<>>]

\* ExternalVerifierAgent._determine_overall_status: the precedence chain
DetermineOverallStatus(r) ==
    IF r.is_sanctioned
    THEN [r EXCEPT !.overall_status = "FLAGGED", !.requires_human_review = TRUE,
                   !.risk_indicators = <<"SANCTIONS_MATCH">>]
    ELSE IF r.is_pep
    THEN [r EXCEPT !.overall_status = "FLAGGED", !.requires_human_review = TRUE,
                   !.risk_indicators = <<"PEP_MATCH">>]
    ELSE IF ~r.dvs_verified
    THEN [r EXCEPT !.overall_status = "NO_MATCH", !.requires_human_review = TRUE,
                   !.risk_indicators = <<"DVS_FAILED">>]
    ELSE IF r.db_status # "NONE" /\ r.discrepancies > 0
    THEN [r EXCEPT !.overall_status =
                       IF r.discrepancies > MaxPartialDiscrepancies
                       THEN "NO_MATCH" ELSE "PARTIAL_MATCH",
                   !.requires_human_review = TRUE,
                   !.risk_indicators = <<"DATABASE_DISCREPANCY">>]
    ELSE [r EXCEPT !.overall_status = "VERIFIED",
                   !.requires_human_review = FALSE,
                   !.risk_indicators = <<>>]

\* ExternalVerifierAgent.verify raises: with no customer record the key
\* "database_match" holds None, results.get("database_match", {}) returns
\* that None, and db_match.get(...) is an AttributeError
VerifyRaises(insp, db) == ~db

\* ExternalVerifierAgent.verify: the four sub-checks and the overall status
Verify(insp, db, disc) ==
    DetermineOverallStatus(
        [NoVerification EXCEPT
            !.present = TRUE,
            !.dvs_verified = insp.doc_number,
            !.db_status = IF ~db THEN "NONE"
                          ELSE IF disc = 0 THEN "VERIFIED" ELSE "DISCREPANCY",
            !.discrepancies = IF db THEN disc ELSE 0,
            !.is_pep = insp.pep,
            !.is_sanctioned = insp.sanctioned])

\* The activity entries verify logs, in order (the second one is not
\* reached when verify raises)
VerifyLog(insp, db, disc) ==
    << [agent |-> "external_verifier", action |-> "Verifying",
        status |-> "in_progress"] >>
    \o (IF VerifyRaises(insp, db) THEN <<>>
        ELSE << [agent |-> "external_verifier",
                 action |-> "Verification Complete",
                 status |-> IF Verify(insp, db, disc).overall_status = "VERIFIED"
                            THEN "success" ELSE "warning"] >>)

\* ------------------------------------------------------ Compliance Officer

NoCompliance ==
    [present |-> FALSE, decision |-> "NONE", risk_level |-> "NONE",
     confidence_score |-> 0]

\* _assess_document_evidence: the number of risk factors it contributes
DocRiskFactors(insp) ==
    IF ~insp.success THEN 1
    ELSE (IF insp.quality_score < QualityLow THEN 1 ELSE 0) + Len(insp.issues)

\* _assess_document_evidence: the number of mitigating factors
DocMitigating(insp) ==
    IF ~insp.success THEN 0
    ELSE 1 + (IF insp.quality_score >= QualityHigh THEN 1 ELSE 0)
           + (IF Len(insp.issues) = 0 THEN 1 ELSE 0)

\* _assess_external_evidence: the number of risk factors
ExtRiskFactors(ver) ==
    (IF ver.dvs_verified THEN 0 ELSE 1)
    + (IF ver.db_status = "VERIFIED" THEN 0 ELSE ver.discrepancies)
    + (IF ver.is_pep THEN 1 ELSE 0)
    + (IF ver.is_sanctioned THEN 1 ELSE 0)

\* _assess_external_evidence: the number of mitigating factors
ExtMitigating(ver) ==
    (IF ver.dvs_verified THEN 1 ELSE 0)
    + (IF ver.db_status = "VERIFIED" THEN 1 ELSE 0)
    + (IF ver.is_pep THEN 0 ELSE 1)
    + (IF ver.is_sanctioned THEN 0 ELSE 1)

\* A faulty _calculate_risk_level without the critical factors; C11 rules it
\* out
CalculateRiskLevel_score_only(insp, ver) ==
    LET score == 2 * (DocRiskFactors(insp) + ExtRiskFactors(ver))
                 - (DocMitigating(insp) + ExtMitigating(ver))
    IN  IF score <= -2 THEN "LOW"
        ELSE IF score <= 2 THEN "MEDIUM"
        ELSE "HIGH"

\* _calculate_risk_level: a critical factor ("SANCTIONS", "PEP status",
\* "DVS verification failed") is HIGH, otherwise the score decides
CalculateRiskLevel(insp, ver) ==
    LET score == 2 * (DocRiskFactors(insp) + ExtRiskFactors(ver))
                 - (DocMitigating(insp) + ExtMitigating(ver))
    IN  IF ver.is_sanctioned \/ ver.is_pep \/ ~ver.dvs_verified THEN "HIGH"
        ELSE IF score <= -2 THEN "LOW"
        ELSE IF score <= 2 THEN "MEDIUM"
        ELSE "HIGH"

\* ComplianceOfficerAgent.__init__: risk_rules, as far as _make_decision
\* reads them; auto_approve_verified_low_risk is set and read nowhere
RiskRules ==
    [auto_approve_verified_low_risk |-> FALSE, pep_requires_edd |-> TRUE,
     sanctions_auto_reject |-> TRUE]

\* A faulty _make_decision that applies the PEP rule before the sanctions
\* rule; C12 rules it out
MakeDecision_pep_first(risk, ver) ==
    IF ver.is_pep
    THEN [decision |-> "ESCALATE", confidence_score |-> 85]
    ELSE IF ver.is_sanctioned
    THEN [decision |-> "REJECT", confidence_score |-> 99]
    ELSE [decision |-> "ESCALATE",
          confidence_score |->
              IF ver.overall_status = "VERIFIED" /\ risk = "LOW"
              THEN 85 ELSE 70]

\* A faulty _make_decision that approves a verified low-risk customer; C13
\* rules it out
MakeDecision_auto_approves(risk, ver) ==
    IF ver.is_sanctioned
    THEN [decision |-> "REJECT", confidence_score |-> 99]
    ELSE IF ver.is_pep
    THEN [decision |-> "ESCALATE", confidence_score |-> 85]
    ELSE IF ver.overall_status = "VERIFIED" /\ risk = "LOW"
    THEN [decision |-> "APPROVE", confidence_score |-> 85]
    ELSE [decision |-> "ESCALATE", confidence_score |-> 70]

\* A faulty _make_decision whose confidence looks at the verification
\* status alone; C16 rules it out
MakeDecision_confidence_by_status(risk, ver) ==
    IF ver.is_sanctioned
    THEN [decision |-> "REJECT", confidence_score |-> 99]
    ELSE IF ver.is_pep
    THEN [decision |-> "ESCALATE", confidence_score |-> 85]
    ELSE [decision |-> "ESCALATE",
          confidence_score |->
              IF ver.overall_status = "VERIFIED" THEN 85 ELSE 70]

\* _make_decision: the decision and its confidence, in percent
MakeDecision(risk, ver) ==
    IF ver.is_sanctioned /\ RiskRules.sanctions_auto_reject
    THEN [decision |-> "REJECT", confidence_score |-> 99]
    ELSE IF ver.is_pep /\ RiskRules.pep_requires_edd
    THEN [decision |-> "ESCALATE", confidence_score |-> 85]
    ELSE [decision |-> "ESCALATE",
          confidence_score |->
              IF ver.overall_status = "VERIFIED" /\ risk = "LOW"
              THEN 85 ELSE 70]

\* ComplianceOfficerAgent.assess
Assess(insp, ver) ==
    LET risk == CalculateRiskLevel(insp, ver)
        d    == MakeDecision(risk, ver)
    IN  [present |-> TRUE, decision |-> d.decision, risk_level |-> risk,
         confidence_score |-> d.confidence_score]

\* The activity entries assess and generate_audit_report log, in order
AssessLog ==
    << [agent |-> "compliance_officer", action |-> "Assessing Risk",
        status |-> "in_progress"],
       [agent |-> "compliance_officer", action |-> "ACIP Decision",
        status |-> "decision"],
       [agent |-> "compliance_officer", action |-> "Generating Audit Report",
        status |-> "in_progress"],
       [agent |-> "compliance_officer", action |-> "Audit Report Complete",
        status |-> "success"] >>

\* ------------------------------------------------------- workflow state

None == "None"

\* An audit_trail entry: the step and the value the step records (success of
\* the inspection, overall status, decision, final status)
Entry(step, detail) == [step |-> step, detail |-> detail]

\* An activity entry the workflow nodes log as agent SYSTEM
SystemLog(action, status) ==
    [agent |-> "system", action |-> action, status |-> status]

\* ACIPWorkflow.start_case: initial_state
InitialState(doc) ==
    [doc |-> doc, status |-> "pending", risk_level |-> "unknown",
     inspection_result |-> NoInspection,
     verification_result |-> NoVerification,
     compliance_result |-> NoCompliance,
     human_decision |-> None, human_notes |-> None, human_actor |-> None,
     final_status |-> None, final_decision |-> None, audit_trail |-> <<>>]

\* The state before start_case has built initial_state
NoState == InitialState(Scenario(0, "ok", FALSE, FALSE, FALSE, FALSE, FALSE, 0))

\* start_workflow
start_workflow(s) ==
    [s EXCEPT !.status = "processing",
              !.audit_trail = Append(@, Entry("workflow_started", "initiated"))]

\* A faulty document_inspection_node that sends a readable document straight
\* to compliance review; the transition table of C8 rules it out
document_inspection_node_skips_ahead(s) ==
    LET result == Inspect(s.doc)
    IN  [s EXCEPT
            !.status = IF result.success THEN "compliance_review"
                       ELSE "awaiting_human",
            !.inspection_result = result,
            !.audit_trail = Append(@, Entry("document_inspection",
                                IF result.success THEN "success" ELSE "failed"))]

\* document_inspection_node
document_inspection_node(s) ==
    LET result == Inspect(s.doc)
    IN  [s EXCEPT
            !.status = IF result.success THEN "verifying" ELSE "awaiting_human",
            !.inspection_result = result,
            !.audit_trail = Append(@, Entry("document_inspection",
                                IF result.success THEN "success" ELSE "failed"))]

\* A faulty external_verification_node without the skip branch; C10 rules
\* it out
external_verification_node_unguarded(s) ==
    LET result == Verify(s.inspection_result, s.doc.db, s.doc.disc)
    IN  [s EXCEPT
            !.status = "compliance_review",
            !.verification_result = result,
            !.audit_trail = Append(@, Entry("external_verification",
                                            result.overall_status))]

\* external_verification_node: skipped when the inspection failed
external_verification_node(s) ==
    IF ~s.inspection_result.success
    THEN [s EXCEPT !.verification_result = SkippedVerification]
    ELSE LET result == Verify(s.inspection_result, s.doc.db, s.doc.disc)
         IN  [s EXCEPT
                 !.status = "compliance_review",
                 !.verification_result = result,
                 !.audit_trail = Append(@, Entry("external_verification",
                                                 result.overall_status))]

\* str.lower() on the risk levels
Lower(risk) ==
    CASE risk = "LOW" -> "low" [] risk = "MEDIUM" -> "medium"
      [] risk = "HIGH" -> "high" [] OTHER -> risk

\* compliance_decision_node
compliance_decision_node(s) ==
    LET result == Assess(s.inspection_result, s.verification_result)
        next_status == IF result.decision = "REJECT" THEN "rejected"
                       ELSE "awaiting_human"
    IN  [s EXCEPT
            !.status = next_status,
            !.risk_level = Lower(result.risk_level),
            !.compliance_result = result,
            !.final_decision = result.decision,
            !.audit_trail = Append(@, Entry("compliance_decision",
                                            result.decision))]

\* route_after_compliance
route_after_compliance(s) ==
    IF s.final_decision \in {"APPROVE", "REJECT"} THEN "finalize"
    ELSE "human_review"

\* A faulty human_review_node that starts the trail afresh; C6 rules it out
human_review_node_rewrites(s, human_response) ==
    [s EXCEPT
        !.human_decision = human_response.decision,
        !.human_notes = human_response.notes,
        !.human_actor = human_response.actor,
        !.audit_trail = << Entry("human_review", human_response.decision) >>]

\* A faulty human_review_node that returns the state without the decision
\* result; C27 rules it out
human_review_node_drops_result(s, human_response) ==
    [s EXCEPT
        !.human_decision = human_response.decision,
        !.human_notes = human_response.notes,
        !.human_actor = human_response.actor,
        !.compliance_result = NoCompliance,
        !.audit_trail = Append(@, Entry("human_review",
                                        human_response.decision))]

\* A faulty human_review_node that lets the reviewer's decision settle the
\* risk classification; C36 rules it out
human_review_node_rates_risk(s, human_response) ==
    [s EXCEPT
        !.human_decision = human_response.decision,
        !.human_notes = human_response.notes,
        !.human_actor = human_response.actor,
        !.risk_level = IF human_response.decision = "approve" THEN "low"
                       ELSE @,
        !.audit_trail = Append(@, Entry("human_review",
                                        human_response.decision))]

\* human_review_node, from interrupt() returning the resume payload on
human_review_node(s, human_response) ==
    [s EXCEPT
        !.human_decision = human_response.decision,
        !.human_notes = human_response.notes,
        !.human_actor = human_response.actor,
        !.audit_trail = Append(@, Entry("human_review",
                                        human_response.decision))]

\* finalize_case: status_map.get(decision, state.get("status", "pending"))
FinalStatus(decision, status) ==
    CASE decision \in {"approve", "approved", "APPROVE"} -> "approved"
      [] decision \in {"reject", "rejected", "REJECT"}   -> "rejected"
      [] decision \in {"escalate", "ESCALATE"}           -> "escalated"
      [] OTHER                                           -> status

\* A faulty finalize_case that records the decision where the status
\* belongs; C7 rules it out
finalize_case_records_decision(s) ==
    LET decision == IF s.human_decision \notin {None, ""}
                    THEN s.human_decision ELSE s.final_decision
        final_status == FinalStatus(decision, s.status)
    IN  [s EXCEPT
            !.status = final_status,
            !.final_status = final_status,
            !.audit_trail = Append(@, Entry("workflow_completed", decision))]

\* finalize_case
finalize_case(s) ==
    LET decision == IF s.human_decision \notin {None, ""}
                    THEN s.human_decision ELSE s.final_decision
        final_status == FinalStatus(decision, s.status)
    IN  [s EXCEPT
            !.status = final_status,
            !.final_status = final_status,
            !.audit_trail = Append(@, Entry("workflow_completed",
                                            final_status))]

\* ------------------------------------------------------------ the state

VARIABLES
    deploy,        \* "api": the FastAPI tasks build ACIPWorkflow() with no
                   \* checkpointer; "engine": a client drives
                   \* ACIPWorkflow(checkpointer=saver) directly
    wf,            \* the WorkflowState of the running graph
    wfPc,          \* the graph's next node, or idle / interrupted / END / raised
    resume,        \* the Command(resume=...) payload the graph is run with
    checkpoints,   \* the checkpointer's store, by thread_id
    returned,      \* what start_case / resume_with_human_input returned last
    resumeCalls,   \* every resume_with_human_input call and how it ended
    activities,    \* activity_logger._activities of the case
    bgPc,          \* process_case_workflow's position
    bgSeen,        \* the case status process_case_workflow's session loaded
    resumeQueue,   \* resume_workflow_task background tasks not run yet
    reqs,          \* the perform_action requests
    dbStatus,      \* acip_cases.status of the case
    dbActions,     \* the case_actions rows of the case, in insertion order
    dbAudit,       \* the audit_logs rows of the case, in insertion order
    calc,          \* a provider call made on its own: its arguments and result
    logger         \* the activity_logger singleton as its callers for several
                   \* cases see it: the entries by case and the broadcast

vars == << deploy, wf, wfPc, resume, checkpoints, returned, resumeCalls,
           activities, bgPc, bgSeen, resumeQueue, reqs, dbStatus, dbActions,
           dbAudit, calc, logger >>

engineVars == << wf, wfPc, resume, checkpoints, returned, activities >>
apiVars    == << bgPc, bgSeen, resumeQueue, reqs, dbStatus, dbActions, dbAudit >>

\* The thread_id start_case generates, and one no run was started under
ThreadIds == {"t1", "t2"}
StartedThread == "t1"

\* The decisions a caller can resume with: the three action types
\* resume_workflow_task passes on, and one finalize_case's status_map lacks
HumanDecisions == {"approve", "reject", "escalate", "defer"}

NoResume == [present |-> FALSE, decision |-> None, actor |-> None, notes |-> ""]
NoCheckpoint == [present |-> FALSE, next |-> "idle", values |-> NoState]
NoReturn == [present |-> FALSE, values |-> NoState]
NoCalc == [fn |-> "none"]
NewRequest == [pc |-> "new", endpoint |-> None, action_type |-> None,
               notes |-> None, notes_blank |-> FALSE, seen |-> None,
               case_ids |-> <<>>, approved |-> <<>>, failed |-> <<>>]

\* The cases the logger's callers log for
LogCases == {"c1", "c2"}

\* An activity entry as the logger's own callers tell entries apart: the
\* case it was logged for and its position among the log calls (timestamp)
NoDuration == [none |-> TRUE, ms |-> 0]
NoEntry == [case_id |-> None, seq |-> 0, agent |-> None, action |-> None,
            status |-> None, duration_ms |-> NoDuration]

\* The last call made on the logger: the method, the case it was given and,
\* for log, what asyncio.get_event_loop() gave it
Op(fn, case_id, loop) == [fn |-> fn, case_id |-> case_id, loop |-> loop]

\* ActivityLogger.__init__, and no call made yet.  A key of _activities
\* that is not there is an entry whose field present is FALSE; tasks are the
\* broadcast tasks created and not run yet, sent what the callback
\* delivered, task_errors the tasks that ended with an exception.
NewLogger ==
    [activities |-> [c \in LogCases |-> [present |-> FALSE, entries |-> <<>>]],
     start_times |-> {},
     broadcast_callback |-> None, tasks |-> <<>>, sent |-> <<>>,
     task_errors |-> 0, calls |-> 0, op |-> Op("none", None, None),
     raised |-> FALSE, returned |-> NoEntry]

\* ACIPWorkflow.__init__: graph.compile(checkpointer=checkpointer)
HasCheckpointer == deploy = "engine"

Init ==
    /\ deploy \in {"api", "engine"}
    /\ wf = NoState
    /\ wfPc = "idle"
    /\ resume = NoResume
    /\ checkpoints = [t \in ThreadIds |-> NoCheckpoint]
    /\ returned = NoReturn
    /\ resumeCalls = <<>>
    /\ activities = <<>>
    /\ bgPc = IF deploy = "api" THEN "queued" ELSE "none"
    /\ bgSeen = None
    /\ resumeQueue = <<>>
    /\ reqs = [r \in 1..MaxRequests |-> NewRequest]
    /\ dbStatus = "pending"
    /\ dbActions = <<>>
    /\ dbAudit = << Entry("Case Created", "system") >>
    /\ calc = NoCalc
    /\ logger = NewLogger

\* ------------------------------------------------- the graph run (Pregel)

\* The checkpointer's store after a step that leaves the graph at `next`
\* with values `s`: written when the graph was compiled with a checkpointer
SaveCheckpoint(next, s) ==
    IF HasCheckpointer
    THEN [checkpoints EXCEPT ![StartedThread] =
              [present |-> TRUE, next |-> next, values |-> s]]
    ELSE checkpoints

\* One node ran: the state it returned, the node the edges lead to, and the
\* activity entries it logged
Step(s, next, logs) ==
    /\ wf' = s
    /\ wfPc' = next
    /\ activities' = activities \o logs
    /\ checkpoints' = SaveCheckpoint(next, s)

\* ACIPWorkflow.start_case, up to the first node of the stream
BeginRun(doc) ==
    /\ wfPc = "idle"
    /\ wf' = InitialState(doc)
    /\ wfPc' = "start"
    /\ checkpoints' = SaveCheckpoint("start", InitialState(doc))
    /\ UNCHANGED << resume, returned, activities, resumeCalls >>

\* node "start" and its edge
NodeStart ==
    /\ wfPc = "start"
    /\ Step(start_workflow(wf), "document_inspection",
            << SystemLog("ACIP Workflow Initiated", "started") >>)
    /\ UNCHANGED << calc, logger, deploy, resume, returned, resumeCalls, apiVars >>

\* node "document_inspection" and its edge
NodeInspection ==
    /\ wfPc = "document_inspection"
    /\ Step(document_inspection_node(wf), "external_verification",
            InspectLog(wf.doc))
    /\ UNCHANGED << calc, logger, deploy, resume, returned, resumeCalls, apiVars >>

\* The activity entries external_verification_node logs
VerificationNodeLog(s) ==
    IF ~s.inspection_result.success
    THEN << [agent |-> "external_verifier", action |-> "Verification Skipped",
             status |-> "warning"] >>
    ELSE VerifyLog(s.inspection_result, s.doc.db, s.doc.disc)

\* node "external_verification" and its edge; when verify raises, the
\* exception leaves the stream and the call
NodeVerification ==
    /\ wfPc = "external_verification"
    /\ IF wf.inspection_result.success
          /\ VerifyRaises(wf.inspection_result, wf.doc.db)
       THEN /\ wfPc' = "raised"
            /\ activities' = activities \o VerificationNodeLog(wf)
            /\ UNCHANGED << wf, checkpoints >>
       ELSE Step(external_verification_node(wf), "compliance_decision",
                 VerificationNodeLog(wf))
    /\ UNCHANGED << calc, logger, deploy, resume, returned, resumeCalls, apiVars >>

\* node "compliance_decision" and its conditional edge
NodeCompliance ==
    /\ wfPc = "compliance_decision"
    /\ LET s == compliance_decision_node(wf)
       IN  Step(s, route_after_compliance(s), AssessLog)
    /\ UNCHANGED << calc, logger, deploy, resume, returned, resumeCalls, apiVars >>

\* node "human_review" with no resume value: interrupt() ends the stream;
\* the last values streamed are what the call returns
NodeHumanReviewInterrupt ==
    /\ wfPc = "human_review"
    /\ ~resume.present
    /\ wfPc' = "interrupted"
    /\ activities' = activities
                     \o << SystemLog("Human Review Requested", "decision") >>
    /\ returned' = [present |-> TRUE, values |-> wf]
    /\ checkpoints' = SaveCheckpoint("human_review", wf)
    /\ UNCHANGED << calc, logger, deploy, wf, resume, resumeCalls, apiVars >>

\* node "human_review" run again with the resume value: interrupt() returns
\* the payload and the node completes
NodeHumanReviewResume ==
    /\ wfPc = "human_review"
    /\ resume.present
    /\ Step(human_review_node(wf, resume), "finalize",
            << SystemLog("Human Review Requested", "decision"),
               SystemLog("Human Decision Received", "success") >>)
    /\ resume' = NoResume
    /\ UNCHANGED << calc, logger, deploy, returned, resumeCalls, apiVars >>

\* node "finalize" and its edge to END: the stream ends
NodeFinalize ==
    /\ wfPc = "finalize"
    /\ Step(finalize_case(wf), "END",
            << SystemLog("ACIP Verification Complete", "success") >>)
    /\ returned' = [present |-> TRUE, values |-> finalize_case(wf)]
    /\ UNCHANGED << calc, logger, deploy, resume, resumeCalls, apiVars >>

\* The graph is between calls: no node is running
Idle == wfPc \in {"idle", "interrupted", "END", "raised"}

\* The event loop is free for a handler or a task to run its next part.  A
\* scheduled resume_workflow_task runs first: it has no await and shares no
\* state with the handlers, so running it first loses no interleaving.
LoopFree == Idle /\ resumeQueue = <<>>

\* ------------------------------------------- a client of ACIPWorkflow

\* start_case on ACIPWorkflow(checkpointer=saver)
EngineStartCase(doc) ==
    /\ deploy = "engine"
    /\ BeginRun(doc)
    /\ UNCHANGED << calc, logger, deploy, apiVars >>

\* A resume_with_human_input call as the log keeps it: the identifier given,
\* the decision, whether a checkpoint was stored under the identifier
\* (known) and held a pending interrupt (pending), and the error raised
ResumeCall(id, decision, known, pending, error) ==
    [id |-> id, decision |-> decision, known |-> known, pending |-> pending,
     error |-> error]

\* A checkpoint with a pending interrupt: the graph stopped in human_review
Pending(t) == checkpoints[t].present /\ checkpoints[t].next = "human_review"

\* resume_with_human_input(thread_id, decision, ...) where the thread holds
\* a pending interrupt: the stream restores the checkpoint's values and runs
\* human_review again with the payload
EngineResumePending(t, d) ==
    /\ deploy = "engine"
    /\ Idle
    /\ Len(resumeCalls) < MaxResumes
    /\ Pending(t)
    /\ wf' = checkpoints[t].values
    /\ wfPc' = "human_review"
    /\ resume' = [present |-> TRUE, decision |-> d, actor |-> "reviewer",
                  notes |-> ""]
    /\ resumeCalls' = Append(resumeCalls, ResumeCall(t, d, TRUE, TRUE, "none"))
    /\ UNCHANGED << calc, logger, deploy, checkpoints, returned, activities, apiVars >>

\* resume_with_human_input where the thread holds no pending interrupt.  The
\* method has no check of its own: it hands the Command to the stream.  A
\* thread that stopped on verify's exception runs that node again and raises
\* again; on a finished or unknown thread the stream has no node to run and
\* the method returns the last values streamed, if any.
EngineResumeNotPending(t, d) ==
    /\ deploy = "engine"
    /\ Idle
    /\ Len(resumeCalls) < MaxResumes
    /\ ~Pending(t)
    /\ LET e == IF checkpoints[t].present
                    /\ checkpoints[t].next = "external_verification"
                 THEN "AttributeError" ELSE "none"
       IN  /\ resumeCalls' = Append(resumeCalls,
                  ResumeCall(t, d, checkpoints[t].present, FALSE, e))
           /\ returned' = IF checkpoints[t].present /\ e = "none"
                          THEN [present |-> TRUE,
                                values |-> checkpoints[t].values]
                          ELSE NoReturn
    /\ UNCHANGED << calc, logger, deploy, wf, wfPc, resume, checkpoints, activities,
                    apiVars >>

\* ------------------------------------------------ process_case_workflow

\* process_case_workflow up to workflow.start_case on ACIPWorkflow()
BgStartCase(doc) ==
    /\ deploy = "api"
    /\ bgPc = "queued"
    /\ resumeQueue = <<>>
    /\ BeginRun(doc)
    /\ bgPc' = "running"
    /\ UNCHANGED << calc, logger, deploy, bgSeen, resumeQueue, reqs, dbStatus, dbActions,
                    dbAudit >>

\* start_case returned: the task's session loads the case
BgSelect ==
    /\ bgPc = "running"
    /\ wfPc \in {"interrupted", "END"}
    /\ resumeQueue = <<>>
    /\ bgPc' = "selected"
    /\ bgSeen' = dbStatus
    /\ UNCHANGED << calc, logger, deploy, engineVars, resumeCalls, resumeQueue, reqs,
                    dbStatus, dbActions, dbAudit >>

\* process_case_workflow's status_map.get(workflow_status, AWAITING_HUMAN)
WorkflowStatusToCase(workflow_status) ==
    IF workflow_status \in {"awaiting_human", "verified", "approved",
                            "rejected", "ai_review", "pending", "processing",
                            "escalated"}
    THEN workflow_status ELSE "awaiting_human"

\* The session's UPDATE carries the columns whose value differs from the one
\* it loaded: the status a unit of work leaves in the row
Flush(loaded, assigned, row) == IF assigned = loaded THEN row ELSE assigned

\* process_case_workflow returns: its ACIPWorkflow() and the state
\* start_case returned are locals, and no checkpointer kept a copy; the
\* activity logger is a module-level singleton and keeps its entries
Discard ==
    /\ wf' = NoState
    /\ wfPc' = "idle"
    /\ returned' = NoReturn
    /\ UNCHANGED << resume, checkpoints, activities >>

\* The task writes the workflow's results to the case and commits; the
\* extracted data is logged to the audit table when there is some
BgCommit ==
    /\ bgPc = "selected"
    /\ resumeQueue = <<>>
    /\ bgPc' = "done"
    /\ dbStatus' = Flush(bgSeen, WorkflowStatusToCase(returned.values.status),
                         dbStatus)
    /\ dbAudit' = IF returned.values.inspection_result.has_data
                  THEN Append(dbAudit, Entry("Document Extraction", "system"))
                  ELSE dbAudit
    /\ Discard
    /\ UNCHANGED << calc, logger, deploy, resumeCalls, bgSeen, resumeQueue, reqs, dbActions >>

\* start_case raised: the except branch broadcasts the error and the task
\* ends without touching the case
BgError ==
    /\ bgPc = "running"
    /\ wfPc = "raised"
    /\ resumeQueue = <<>>
    /\ bgPc' = "error"
    /\ Discard
    /\ UNCHANGED << calc, logger, deploy, resumeCalls, bgSeen, resumeQueue, reqs, dbStatus,
                    dbActions, dbAudit >>

\* ------------------------------------------------------- perform_action

ActionTypes == {"approve", "reject", "escalate", "request_docs",
                "manual_override", "add_note", "assign", "resume"}

\* perform_action's status_map.get(action.action_type)
NewStatus(action_type) ==
    CASE action_type = "approve"      -> "approved"
      [] action_type = "reject"       -> "rejected"
      [] action_type = "escalate"     -> "escalated"
      [] action_type = "request_docs" -> "docs_requested"
      [] OTHER                        -> None

\* perform_action's validation: the HTTP 400 cases
Refused(action_type, notes_blank, status) ==
    /\ action_type \in {"approve", "reject"}
    /\ \/ status \in {"approved", "rejected"}
       \/ notes_blank

\* The requests clients submit: each action type that changes the status,
\* one of those status_map has no entry for (manual_override, add_note,
\* assign and resume take the same path through the fields modelled here),
\* and an approval without notes
Submitted ==
    { << a, FALSE >> : a \in {"approve", "reject", "escalate", "request_docs",
                              "add_note"} }
    \cup { << "approve", TRUE >> }

\* perform_action up to the result of its select: the request's session
\* holds the case as it is now.  Handlers run on the event loop, which a
\* running start_case occupies.
Select(r, action_type, notes_blank) ==
    /\ deploy = "api"
    /\ LoopFree
    /\ reqs[r].pc = "new"
    /\ IF r = 1 THEN TRUE ELSE reqs[r - 1].pc # "new"
    /\ action_type \in ActionTypes
    /\ reqs' = [reqs EXCEPT ![r] = [NewRequest EXCEPT
                                    !.pc = "selected",
                                    !.endpoint = "actions",
                                    !.action_type = action_type,
                                    !.notes = IF notes_blank THEN None
                                              ELSE "ok",
                                    !.notes_blank = notes_blank,
                                    !.seen = dbStatus]]
    /\ UNCHANGED << calc, logger, deploy, engineVars, resumeCalls, bgPc, bgSeen, resumeQueue,
                    dbStatus, dbActions, dbAudit >>

\* A case_actions row
CaseAction(action_type, previous_status, new_status, notes_blank) ==
    [action_type |-> action_type, previous_status |-> previous_status,
     new_status |-> new_status, notes_blank |-> notes_blank]

\* perform_action from the validation on: HTTP 400, or the status update,
\* the case_actions row, the commit, the audit entry and the resume task
Commit(r) ==
    /\ deploy = "api"
    /\ LoopFree
    /\ reqs[r].pc = "selected"
    /\ reqs[r].endpoint = "actions"
    /\ LET q == reqs[r]
           new_status == NewStatus(q.action_type)
       IN  IF Refused(q.action_type, q.notes_blank, q.seen)
           THEN /\ reqs' = [reqs EXCEPT ![r].pc = "http_400"]
                /\ UNCHANGED << resumeQueue, dbStatus, dbActions, dbAudit >>
           ELSE /\ reqs' = [reqs EXCEPT ![r].pc = "done"]
                /\ dbStatus' = IF new_status # None
                               THEN Flush(q.seen, new_status, dbStatus)
                               ELSE dbStatus
                /\ dbActions' = Append(dbActions,
                       CaseAction(q.action_type, q.seen, new_status,
                                  q.notes_blank))
                /\ dbAudit' = Append(dbAudit, Entry("Action", q.action_type))
                /\ resumeQueue' =
                       IF q.action_type \in {"approve", "reject", "escalate"}
                       THEN Append(resumeQueue, q.action_type)
                       ELSE resumeQueue
    /\ UNCHANGED << calc, logger, deploy, engineVars, resumeCalls, bgPc, bgSeen >>

\* ---------------------------------------------------- bulk_approve_cases

\* The identifier of the case, str(case_id), and one no case has
CaseId == "c1"
UnknownCaseId == "c0"

\* The notes query parameter of bulk-approve: left out, blanks, or a text
BulkNotes == {None, " ", "ok"}

\* The bulk-approve requests clients submit: the case alone, the case listed
\* twice, and the case after an unknown id, under the three kinds of notes
BulkSubmitted ==
    { << << CaseId >>, " " >>,
      << << CaseId, CaseId >>, None >>,
      << << UnknownCaseId, CaseId >>, "ok" >> }

\* bulk_approve_cases(case_ids, performed_by, notes) up to the result of
\* the first select that finds the case: the request's session holds the
\* case as it is now, and a later select of the same id gives the session's
\* own object back
BulkSelect(r, case_ids, notes) ==
    /\ deploy = "api"
    /\ LoopFree
    /\ reqs[r].pc = "new"
    /\ IF r = 1 THEN TRUE ELSE reqs[r - 1].pc # "new"
    /\ reqs' = [reqs EXCEPT ![r] = [NewRequest EXCEPT
                                    !.pc = "selected",
                                    !.endpoint = "bulk-approve",
                                    !.action_type = "approve",
                                    !.notes = notes,
                                    !.notes_blank = notes \in {None, " "},
                                    !.seen = dbStatus,
                                    !.case_ids = case_ids]]
    /\ UNCHANGED << calc, logger, deploy, engineVars, resumeCalls, bgPc, bgSeen,
                    resumeQueue, dbStatus, dbActions, dbAudit >>

\* The session of a bulk-approve request before the loop: the status of the
\* case as loaded, the two lists and the case_actions rows added
BulkSession(status) ==
    [status |-> status, approved |-> <<>>, failed |-> <<>>, rows |-> <<>>]

\* bulk_approve_cases: the loop over case_ids from position i on.  The case
\* goes to the failed list, or it is approved in the session with a
\* case_actions row whose notes are `notes or "Bulk approval"`.
RECURSIVE BulkLoop(_, _, _, _)
BulkLoop(case_ids, i, notes, db) ==
    IF i > Len(case_ids) THEN db
    ELSE LET case_id == case_ids[i]
             next ==
                 IF case_id # CaseId
                 THEN [db EXCEPT !.failed = Append(@,
                           [case_id |-> case_id, reason |-> "Not found"])]
                 ELSE IF db.status \notin {"awaiting_human", "escalated"}
                 THEN [db EXCEPT !.failed = Append(@,
                           [case_id |-> case_id, reason |-> "Invalid status"])]
                 ELSE [db EXCEPT
                          !.status = "approved",
                          !.rows = Append(@, CaseAction("approve", db.status,
                                                 "approved", notes = " ")),
                          !.approved = Append(@, case_id)]
         IN  BulkLoop(case_ids, i + 1, notes, next)

\* bulk_approve_cases from the first status check on: the loop, the commit
\* and the response.  No audit entry is logged and no resume task is
\* scheduled.
BulkCommit(r) ==
    /\ deploy = "api"
    /\ LoopFree
    /\ reqs[r].pc = "selected"
    /\ reqs[r].endpoint = "bulk-approve"
    /\ LET db == BulkLoop(reqs[r].case_ids, 1, reqs[r].notes,
                          BulkSession(reqs[r].seen))
       IN  /\ reqs' = [reqs EXCEPT
                          ![r].pc = IF db.approved = <<>> THEN "failed"
                                    ELSE "done",
                          ![r].approved = db.approved,
                          ![r].failed = db.failed]
           /\ dbStatus' = Flush(reqs[r].seen, db.status, dbStatus)
           /\ dbActions' = dbActions \o db.rows
    /\ UNCHANGED << calc, logger, deploy, engineVars, resumeCalls, bgPc, bgSeen,
                    resumeQueue, dbAudit >>

\* resume_workflow_task: ACIPWorkflow() and resume_with_human_input(
\* case_id=...), a keyword the method does not have: the call is a TypeError
\* before the method body runs
ResumeTask ==
    /\ deploy = "api"
    /\ Idle
    /\ resumeQueue # <<>>
    /\ resumeCalls' = Append(resumeCalls,
           ResumeCall(CaseId, Head(resumeQueue), FALSE, FALSE, "TypeError"))
    /\ resumeQueue' = Tail(resumeQueue)
    /\ UNCHANGED << calc, logger, deploy, engineVars, bgPc, bgSeen, reqs, dbStatus,
                    dbActions, dbAudit >>

\* ------------------------------------------------------ the specification

Next ==
    \/ \E doc \in Scenarios : EngineStartCase(doc)
    \/ \E doc \in Scenarios : BgStartCase(doc)
    \/ NodeStart
    \/ NodeInspection
    \/ NodeVerification
    \/ NodeCompliance
    \/ NodeHumanReviewInterrupt
    \/ NodeHumanReviewResume
    \/ NodeFinalize
    \/ \E t \in ThreadIds, d \in HumanDecisions : EngineResumePending(t, d)
    \/ \E t \in ThreadIds, d \in HumanDecisions : EngineResumeNotPending(t, d)
    \/ BgSelect
    \/ BgCommit
    \/ BgError
    \/ \E r \in 1..MaxRequests, a \in Submitted : Select(r, a[1], a[2])
    \/ \E r \in 1..MaxRequests : Commit(r)
    \/ \E r \in 1..MaxRequests, b \in BulkSubmitted : BulkSelect(r, b[1], b[2])
    \/ \E r \in 1..MaxRequests : BulkCommit(r)
    \/ ResumeTask

Spec == Init /\ [][Next]_vars

\* ------------------------------------- External Verifier: database match

\* A Python value of the extracted data or the customer record: None, or a
\* string as the sequence of its characters
PyNone == [none |-> TRUE, s |-> <<>>]
Str(chars) == [none |-> FALSE, s |-> chars]

Lowercase == << "a", "b", "c", "d", "e", "f", "g", "h", "i", "j", "k", "l", "m",
                "n", "o", "p", "q", "r", "s", "t", "u", "v", "w", "x", "y", "z" >>
Uppercase == << "A", "B", "C", "D", "E", "F", "G", "H", "I", "J", "K", "L", "M",
                "N", "O", "P", "Q", "R", "S", "T", "U", "V", "W", "X", "Y", "Z" >>

\* str.upper()
Upper(chars) ==
    [i \in DOMAIN chars |->
        IF \E k \in DOMAIN Lowercase : Lowercase[k] = chars[i]
        THEN Uppercase[CHOOSE k \in DOMAIN Lowercase : Lowercase[k] = chars[i]]
        ELSE chars[i]]

\* str.strip()
RECURSIVE Strip(_)
Strip(chars) ==
    IF chars = <<>> THEN chars
    ELSE IF Head(chars) = " " THEN Strip(Tail(chars))
    ELSE IF chars[Len(chars)] = " "
    THEN Strip(SubSeq(chars, 1, Len(chars) - 1))
    ELSE chars

\* value.replace("-", "").replace(" ", "").replace(".", "")
Squeeze(chars) == SelectSeq(chars, LAMBDA c : c \notin {"-", " ", "."})

\* _is_near_match: common_names
CommonNames ==
    { << <<"J", "O", "N">>, <<"J", "O", "H", "N">> >>,
      << <<"J", "O", "H", "N">>, <<"J", "O", "N">> >>,
      << <<"B", "O", "B">>, <<"R", "O", "B", "E", "R", "T">> >>,
      << <<"R", "O", "B", "E", "R", "T">>, <<"B", "O", "B">> >>,
      << <<"B", "I", "L", "L">>, <<"W", "I", "L", "L", "I", "A", "M">> >>,
      << <<"W", "I", "L", "L", "I", "A", "M">>, <<"B", "I", "L", "L">> >>,
      << <<"M", "I", "K", "E">>, <<"M", "I", "C", "H", "A", "E", "L">> >>,
      << <<"M", "I", "C", "H", "A", "E", "L">>, <<"M", "I", "K", "E">> >>,
      << <<"J", "I", "M">>, <<"J", "A", "M", "E", "S">> >>,
      << <<"J", "A", "M", "E", "S">>, <<"J", "I", "M">> >> }

Min3(a, b, c) ==
    IF a <= b /\ a <= c THEN a ELSE IF b <= c THEN b ELSE c

\* _levenshtein_distance: current_row for the character c1, one entry
\* appended per character of s2 (the j-th when j entries are there)
RECURSIVE CurrentRow(_, _, _, _)
CurrentRow(previous_row, current_row, c1, s2) ==
    LET j == Len(current_row)
    IN  IF j > Len(s2) THEN current_row
        ELSE CurrentRow(previous_row,
                        Append(current_row,
                               Min3(previous_row[j + 1] + 1,
                                    current_row[j] + 1,
                                    previous_row[j]
                                      + (IF c1 # s2[j] THEN 1 ELSE 0))),
                        c1, s2)

\* _levenshtein_distance: previous_row after the loop over the characters
\* of s1; a row starts with the number of characters consumed (current_row
\* = [i + 1])
RECURSIVE LastRow(_, _, _)
LastRow(previous_row, s1, s2) ==
    LET i == previous_row[1] + 1
    IN  IF i > Len(s1) THEN previous_row
        ELSE LastRow(CurrentRow(previous_row, << i >>, s1[i], s2), s1, s2)

\* _levenshtein_distance
LevenshteinDistance(s1, s2) ==
    LET long  == IF Len(s1) < Len(s2) THEN s2 ELSE s1
        short == IF Len(s1) < Len(s2) THEN s1 ELSE s2
    IN  IF Len(short) = 0 THEN Len(long)
        ELSE LastRow([k \in 1..(Len(short) + 1) |-> k - 1], long, short)
                [Len(short) + 1]

\* A faulty _is_near_match that looks a nickname up from its short form
\* only; the symmetry of C22 rules it out
IsNearMatch_short_form_first(value1, value2) ==
    LET v1 == Squeeze(value1)
        v2 == Squeeze(value2)
    IN  \/ v1 = v2
        \/ << v1, v2 >> \in CommonNames /\ Len(v1) < Len(v2)
        \/ /\ Len(v1) > 3
           /\ Len(v2) > 3
           /\ LevenshteinDistance(v1, v2) <= 2

\* _is_near_match
IsNearMatch(value1, value2) ==
    LET v1 == Squeeze(value1)
        v2 == Squeeze(value2)
    IN  \/ v1 = v2
        \/ << v1, v2 >> \in CommonNames
        \/ /\ Len(v1) > 3
           /\ Len(v2) > 3
           /\ LevenshteinDistance(v1, v2) <= 2

\* _verify_against_database: field_mappings
FieldMappings ==
    << [ext_field |-> "first_name",      db_field |-> "first_name",
        display_name |-> "First Name"],
       [ext_field |-> "last_name",       db_field |-> "last_name",
        display_name |-> "Last Name"],
       [ext_field |-> "dob",             db_field |-> "dob",
        display_name |-> "Date of Birth"],
       [ext_field |-> "document_number", db_field |-> "id_number",
        display_name |-> "ID Number"],
       [ext_field |-> "id_number",       db_field |-> "id_number",
        display_name |-> "ID Number"] >>

\* raw_value in (None, "", "null", "None")
RawMissing(raw) ==
    \/ raw.none
    \/ raw.s \in { <<>>, <<"n", "u", "l", "l">>, <<"N", "o", "n", "e">> }

\* `a or b` on two values of the extracted data
PyOr(a, b) == IF a.none \/ a.s = <<>> THEN b ELSE a

\* _verify_against_database: ext_value of a mapping, PyNone when missing
ExtValue(extracted, mapping) ==
    LET raw == IF mapping.ext_field = "document_number"
               THEN PyOr(extracted.document_number, extracted.id_number)
               ELSE extracted[mapping.ext_field]
    IN  IF RawMissing(raw) THEN PyNone
        ELSE IF Strip(Upper(raw.s)) = <<"N", "O", "N", "E">> THEN PyNone
        ELSE Str(Strip(Upper(raw.s)))

\* _verify_against_database: db_value of a mapping, PyNone when missing
DbValue(db_data, mapping) ==
    LET raw == db_data[mapping.db_field]
    IN  IF RawMissing(raw) THEN PyNone ELSE Str(Strip(Upper(raw.s)))

\* A faulty loop body that compares a document value with a missing record
\* value; C20 rules it out
FieldOutcome_compares_absent(extracted, db_data, mapping) ==
    LET ext_value == ExtValue(extracted, mapping)
        db_value  == DbValue(db_data, mapping)
    IN  IF ext_value.none THEN "skipped"
        ELSE IF ext_value = db_value \/ IsNearMatch(ext_value.s, db_value.s)
        THEN "matched"
        ELSE "discrepancy"

\* _verify_against_database: what one turn of the loop does with a mapping
FieldOutcome(extracted, db_data, mapping) ==
    LET ext_value == ExtValue(extracted, mapping)
        db_value  == DbValue(db_data, mapping)
    IN  IF ext_value.none THEN "skipped"
        ELSE IF db_value.none THEN "skipped"
        ELSE IF ext_value = db_value \/ IsNearMatch(ext_value.s, db_value.s)
        THEN "matched"
        ELSE "discrepancy"

\* _verify_against_database: the result dictionary
VerifyAgainstDatabase(extracted, db_data) ==
    LET outcome(i) == FieldOutcome(extracted, db_data, FieldMappings[i])
        hit(i) == outcome(i) = "discrepancy"
        all == [i \in DOMAIN FieldMappings |->
                   [field |-> FieldMappings[i].display_name,
                    document_value |-> ExtValue(extracted, FieldMappings[i]).s,
                    database_value |-> DbValue(db_data, FieldMappings[i]).s,
                    index |-> i]]
        discrepancies == SelectSeq(all, LAMBDA d : hit(d.index))
        matched == SelectSeq(all, LAMBDA d : outcome(d.index) = "matched")
    IN  [status |-> IF discrepancies = <<>> THEN "VERIFIED" ELSE "DISCREPANCY",
         matched_fields |-> [i \in DOMAIN matched |-> matched[i].field],
         discrepancies |->
             [i \in DOMAIN discrepancies |->
                 [field |-> discrepancies[i].field,
                  document_value |-> discrepancies[i].document_value,
                  database_value |-> discrepancies[i].database_value]]]

\* --------------------------------------- the providers called on their own

sysVars == << deploy, wf, wfPc, resume, checkpoints, returned, resumeCalls,
              activities, bgPc, bgSeen, resumeQueue, reqs, dbStatus, dbActions,
              dbAudit >>

\* No case is in the system: the workflow and the API are at rest
AtRest ==
    /\ deploy = "none"
    /\ wf = NoState
    /\ wfPc = "idle"
    /\ resume = NoResume
    /\ checkpoints = [t \in ThreadIds |-> NoCheckpoint]
    /\ returned = NoReturn
    /\ resumeCalls = <<>>
    /\ activities = <<>>
    /\ bgPc = "none"
    /\ bgSeen = None
    /\ resumeQueue = <<>>
    /\ reqs = [r \in 1..MaxRequests |-> NewRequest]
    /\ dbStatus = "pending"
    /\ dbActions = <<>>
    /\ dbAudit = <<>>
    /\ logger = NewLogger

\* The inspection results assess can be handed: a failed inspection, or a
\* successful one with a quality score around the two thresholds and zero to
\* two validation issues
InspectionResults ==
    { [NoInspection EXCEPT !.present = TRUE, !.quality_score = 30,
                           !.issues = << "Extraction failed" >>] }
    \cup { [NoInspection EXCEPT !.present = TRUE, !.success = TRUE,
                                !.has_data = TRUE, !.quality_score = q,
                                !.issues = i] :
             q \in {50, QualityLow - 1, QualityLow, QualityHigh - 1,
                    QualityHigh},
             i \in { <<>>, << "Missing required field" >>,
                     << "Missing required field",
                        "Missing document/ID number" >> } }

OverallStatuses == {"VERIFIED", "PARTIAL_MATCH", "NO_MATCH", "FLAGGED",
                    "SKIPPED"}

\* The verification results assess and _determine_overall_status can be
\* handed: every combination of the four sub-check results, the database
\* match being absent, VERIFIED, or a DISCREPANCY of one to three fields
VerificationResults ==
    { [NoVerification EXCEPT
          !.present = TRUE, !.overall_status = o, !.dvs_verified = dvs,
          !.db_status = db[1], !.discrepancies = db[2], !.is_pep = pep,
          !.is_sanctioned = sanc] :
        o \in OverallStatuses, dvs \in BOOLEAN, pep \in BOOLEAN,
        sanc \in BOOLEAN,
        db \in { << "NONE", 0 >>, << "VERIFIED", 0 >>, << "DISCREPANCY", 1 >>,
                 << "DISCREPANCY", 2 >>,
                 << "DISCREPANCY", MaxPartialDiscrepancies + 1 >> } }

\* A provider is about to be called with arguments of its domain, under
\* either value of Settings.auto_approve_low_risk
DecisionInit ==
    /\ AtRest
    /\ calc \in { [fn |-> "input", insp |-> i, ver |-> v,
                   auto_approve_low_risk |-> a, raised |-> FALSE,
                   out |-> NoCalc] :
                  i \in InspectionResults, v \in VerificationResults,
                  a \in BOOLEAN }

\* ComplianceOfficerAgent.assess(inspection_result, verification_result)
CallAssess ==
    /\ calc.fn = "input"
    /\ calc' = [calc EXCEPT !.fn = "assess",
                            !.out = Assess(calc.insp, calc.ver)]
    /\ UNCHANGED << sysVars, logger >>

\* ExternalVerifierAgent._determine_overall_status(results): it raises on a
\* database_match of None, once the status is derived
CallDetermineOverallStatus ==
    /\ calc.fn = "input"
    /\ calc' = [calc EXCEPT
                   !.fn = "_determine_overall_status",
                   !.raised = (calc.ver.db_status = "NONE"),
                   !.out = IF calc.ver.db_status = "NONE" THEN NoCalc
                           ELSE DetermineOverallStatus(calc.ver)]
    /\ UNCHANGED << sysVars, logger >>

DecisionNext ==
    \/ CallAssess
    \/ CallDetermineOverallStatus

SpecDecision == DecisionInit /\ [][DecisionNext]_vars

\* The values of the extracted data: absent in each of the ways the code
\* knows, a nickname in lower case with a trailing blank, a misspelt
\* surname, and values far from the record's
ExtractedData ==
    { [first_name |-> f, last_name |-> l, dob |-> d, document_number |-> n,
       id_number |-> i] :
        f \in { PyNone, Str(<<>>), Str(<<"j", "o", "n", " ">>), Str(<<"J", "A", "N", "E">>) },
        l \in { PyNone, Str(<<"S", "M", "Y", "T", "H">>), Str(<<"J", "O", "N", "E", "S">>) },
        d \in { PyNone, Str(<<"1", "9", "9", "1", "-", "0", "5", "-", "0", "4">>), Str(<<"1", "9", "8", "5", "-", "0", "1", "-", "0", "1">>) },
        n \in { PyNone, Str(<<"R", "A", "0", "1", "2", "3">>), Str(<<"X", "B", "9", "9", "9", "9">>) },
        i \in { PyNone, Str(<<"R", "A", "0", "1", "2", "3">>), Str(<<"X", "B", "9", "9", "9", "9">>) } }

\* The customer records: JOHN SMITH, 1991-05-04, RA0123, with absent values
CustomerRecords ==
    { [first_name |-> f, last_name |-> l, dob |-> d, id_number |-> i] :
        f \in { PyNone, Str(<<"J", "O", "H", "N">>), Str(<<"n", "u", "l", "l">>) },
        l \in { Str(<<>>), Str(<<"S", "M", "I", "T", "H">>) },
        d \in { PyNone, Str(<<"1", "9", "9", "1", "-", "0", "5", "-", "0", "4">>) },
        i \in { PyNone, Str(<<"R", "A", "0", "1", "2", "3">>), Str(<<"N", "o", "n", "e">>) } }

\* _verify_against_database is about to be called
MatchInit ==
    /\ AtRest
    /\ calc \in { [fn |-> "input", extracted |-> e, db_data |-> c,
                   out |-> NoCalc] :
                  e \in ExtractedData, c \in CustomerRecords }

\* ExternalVerifierAgent._verify_against_database(extracted, db_data)
CallVerifyAgainstDatabase ==
    /\ calc.fn = "input"
    /\ calc' = [calc EXCEPT
                   !.fn = "_verify_against_database",
                   !.out = VerifyAgainstDatabase(calc.extracted, calc.db_data)]
    /\ UNCHANGED << sysVars, logger >>

MatchNext == CallVerifyAgainstDatabase

SpecMatch == MatchInit /\ [][MatchNext]_vars

\* What the inspector reports of a document whose extraction gave this data:
\* _assess_quality scores every image 0.92, _validate_fields wants the three
\* personal fields and a document or ID number, and the two screenings look
\* for POLITICIAN, MINISTER and SANCTIONED in the name, which no name of
\* PersonDocuments holds
DocumentOf(extracted) ==
    Scenario(92, "ok",
             ~RawMissing(PyOr(extracted.document_number, extracted.id_number)),
             \E f \in {"first_name", "last_name", "dob"} :
                 extracted[f].none \/ extracted[f].s = <<>>,
             FALSE, FALSE, TRUE, 0)

\* ExternalVerifierAgent.verify on the inspection of the document, then
\* ComplianceOfficerAgent.assess on both results, as the workflow chains them
CallVerifyThenAssess ==
    /\ calc.fn = "input"
    /\ LET insp  == Inspect(DocumentOf(calc.extracted))
           match == VerifyAgainstDatabase(calc.extracted, calc.db_data)
           ver   == Verify(insp, TRUE, Len(match.discrepancies))
       IN  calc' = [calc EXCEPT
                       !.fn = "verify_then_assess",
                       !.out = [database_match |-> match,
                                verification   |-> ver,
                                compliance     |-> Assess(insp, ver)]]
    /\ UNCHANGED << sysVars, logger >>

\* The documents of two persons, JANE CITIZEN and JON SMYTH, with a
\* second date of birth, a foreign number, and the number under either key
PersonDocuments ==
    { [first_name |-> f, last_name |-> l, dob |-> d, document_number |-> n,
       id_number |-> i] :
        f \in { Str(<<"J", "A", "N", "E">>), Str(<<"J", "O", "N">>) },
        l \in { Str(<<"C", "I", "T", "I", "Z", "E", "N">>),
                Str(<<"S", "M", "Y", "T", "H">>) },
        d \in { Str(<<"1", "9", "9", "1", "-", "0", "5", "-", "0", "4">>),
                Str(<<"1", "9", "8", "5", "-", "0", "1", "-", "0", "1">>) },
        n \in { PyNone, Str(<<"R", "A", "0", "1", "2", "3", "4", "5", "6">>),
                Str(<<"X", "B", "9", "9", "9", "9">>) },
        i \in { PyNone, Str(<<"R", "A", "0", "1", "2", "3", "4", "5", "6">>) } }

\* The customer records of JANE CITIZEN and JOHN SMITH
PersonRecords ==
    { [first_name |-> f, last_name |-> l, dob |-> d, id_number |-> i] :
        f \in { Str(<<"J", "A", "N", "E">>), Str(<<"J", "O", "H", "N">>) },
        l \in { Str(<<"C", "I", "T", "I", "Z", "E", "N">>),
                Str(<<"S", "M", "I", "T", "H">>) },
        d \in { Str(<<"1", "9", "9", "1", "-", "0", "5", "-", "0", "4">>) },
        i \in { PyNone,
                Str(<<"R", "A", "0", "1", "2", "3", "4", "5", "6">>) } }

\* A document has been inspected and its customer record loaded
VerifyInit ==
    /\ AtRest
    /\ calc \in { [fn |-> "input", extracted |-> e, db_data |-> c,
                   out |-> NoCalc] :
                  e \in PersonDocuments, c \in PersonRecords }


VerifyNext == CallVerifyThenAssess

SpecVerify == VerifyInit /\ [][VerifyNext]_vars

\* The values a field is compared on: names with a nickname, a misspelling
\* and a different name, three-letter names one letter apart, identity
\* numbers with and without punctuation, and values as a document gives
\* them, in lower case and padded
NearValues ==
    { <<"J", "O", "N">>, <<"J", "O", "H", "N">>, <<"J", "A", "N", "E">>,
      <<"S", "M", "Y", "T", "H">>, <<"S", "M", "I", "T", "H">>,
      <<"B", "O", "B">>, <<"R", "O", "B", "E", "R", "T">>,
      <<"L", "E", "E">>, <<"L", "E", "A">>,
      <<"R", "A", "-", "0", "1", "2", "3">>, <<"R", "A", "0", "1", "2", "3">>,
      <<"R", "A", "0", "1", "9", "9">>, <<"X", "B", "9", "9", "9", "9">>,
      <<"j", "o", "n", " ">>, <<" ", "s", "m", "y", "t", "h">> }

\* Two values are about to be compared
NearInit ==
    /\ AtRest
    /\ calc \in { [fn |-> "input", value1 |-> a, value2 |-> b, out |-> NoCalc] :
                  a \in NearValues, b \in NearValues }

\* ExternalVerifierAgent._is_near_match(value1, value2)
CallIsNearMatch ==
    /\ calc.fn = "input"
    /\ calc' = [calc EXCEPT !.fn = "_is_near_match",
                            !.out = IsNearMatch(calc.value1, calc.value2)]
    /\ UNCHANGED << sysVars, logger >>

\* One turn of _verify_against_database's loop, on a field that holds
\* value1 in the extracted data and value2 in the customer record
CallCompareField ==
    /\ calc.fn = "input"
    /\ calc' = [calc EXCEPT
                   !.fn = "compare",
                   !.out = FieldOutcome([first_name |-> Str(calc.value1)],
                                        [first_name |-> Str(calc.value2)],
                                        FieldMappings[1])]
    /\ UNCHANGED << sysVars, logger >>

NearNext ==
    \/ CallIsNearMatch
    \/ CallCompareField

SpecNear == NearInit /\ [][NearNext]_vars

\* ------------------------------------- the identity number of an extraction

\* A value of the JSON object the vision model returns: the key is not
\* there, null, or a string
KeyAbsent == [kind |-> "absent", s |-> ""]
JsonNull == [kind |-> "null", s |-> ""]
JsonStr(s) == [kind |-> "str", s |-> s]

\* bool(data.get(key))
Truthy(v) == v.kind = "str" /\ v.s # ""

\* key in data
HasKey(v) == v.kind # "absent"

\* The values of a key that can hold the identity number: the key left out,
\* null, an empty string, the string "null", and a number
IdValues ==
    { KeyAbsent, JsonNull, JsonStr(""), JsonStr("null"), JsonStr("P1234567") }

\* The JSON objects of a document: the identity number under the names the
\* two extractors know
IdData ==
    { [passport_number |-> p, license_number |-> l, national_id |-> KeyAbsent,
       document_number |-> d, id_number |-> i] :
        p \in IdValues, l \in IdValues, d \in IdValues, i \in IdValues }

\* DocumentInspectorAgent._extract_data: "Normalize ID number fields"
NormalizeIdNumber(data) ==
    IF Truthy(data.document_number) /\ ~Truthy(data.id_number)
    THEN [data EXCEPT !.id_number = data.document_number]
    ELSE IF Truthy(data.id_number) /\ ~Truthy(data.document_number)
    THEN [data EXCEPT !.document_number = data.id_number]
    ELSE data

\* DocumentInspectorAgent._extract_data: "Clean up None/null values"
CleanNulls(data) ==
    [key \in DOMAIN data |->
        IF data[key].kind = "null" \/ data[key] \in {JsonStr("null"), JsonStr("None")}
        THEN JsonNull ELSE data[key]]

\* DocumentInspectorAgent._extract_data, from the parsed JSON object to the
\* data it returns
ExtractData(data) == CleanNulls(NormalizeIdNumber(data))

\* LangChainKYCAgent._normalize_fields: field_aliases of id_number, in the
\* order of the dictionary
IdAliases == << "passport_number", "license_number", "national_id",
                "document_number" >>

\* LangChainKYCAgent._normalize_fields: the loop over the aliases, from the
\* k-th on
RECURSIVE ApplyAliases(_, _)
ApplyAliases(normalized, k) ==
    IF k > Len(IdAliases) THEN normalized
    ELSE ApplyAliases(
             IF HasKey(normalized[IdAliases[k]]) /\ ~HasKey(normalized.id_number)
             THEN [normalized EXCEPT !.id_number = normalized[IdAliases[k]]]
             ELSE normalized,
             k + 1)

\* LangChainKYCAgent._normalize_fields
NormalizeFields(data) == ApplyAliases(data, 1)

\* An extractor holds the JSON object the model returned
ExtractInit ==
    /\ AtRest
    /\ calc \in { [fn |-> "input", data |-> d, out |-> NoCalc] : d \in IdData }

CallExtractData ==
    /\ calc.fn = "input"
    /\ calc' = [calc EXCEPT !.fn = "_extract_data",
                            !.out = ExtractData(calc.data)]
    /\ UNCHANGED << sysVars, logger >>

CallNormalizeFields ==
    /\ calc.fn = "input"
    /\ calc' = [calc EXCEPT !.fn = "_normalize_fields",
                            !.out = NormalizeFields(calc.data)]
    /\ UNCHANGED << sysVars, logger >>

ExtractNext ==
    \/ CallExtractData
    \/ CallNormalizeFields

SpecExtract == ExtractInit /\ [][ExtractNext]_vars

\* --------------------------------------------------------- ActivityLogger

\* The callbacks set_broadcast_callback is given: none, manager.broadcast
\* (which swallows the failure of a connection), and a callback that raises
Callbacks == {None, "manager.broadcast", "raising"}

\* What asyncio.get_event_loop() gives a caller of log: the running loop
\* (the caller is a task of the event loop), a loop that is not running, or
\* RuntimeError (the caller's thread has no loop)
LoopStates == {"running", "not_running", "no_loop"}

\* ActivityLogger.set_broadcast_callback
set_broadcast_callback(l, callback) ==
    [l EXCEPT !.broadcast_callback = callback,
              !.op = Op("set_broadcast_callback", None, None)]

\* What a caller of log says of the entry: the agent, the action and the
\* status.  Progress is the entry of a step under way.
What(agent, action, status) ==
    [agent |-> agent, action |-> action, status |-> status]
Progress == What("system", "Step", "in_progress")

\* ActivityLogger.log: action_key, f"{case_id}:{agent}:{action}"
ActionKey(case_id, what) == << case_id, what.agent, what.action >>

\* log: action_key in self._start_times.  A start time is the position of
\* its STARTED entry among the log calls, which stands for
\* datetime.utcnow().
HasStart(l, key) == \E s \in l.start_times : s.key = key
StartTime(l, key) == (CHOOSE s \in l.start_times : s.key = key).at

\* log: duration_ms, None unless a completing status finds a start time
DurationMs(l, case_id, what) ==
    LET key == ActionKey(case_id, what)
    IN  IF what.status \in {"success", "error", "warning"} /\ HasStart(l, key)
        THEN [none |-> FALSE, ms |-> (l.calls + 1) - StartTime(l, key)]
        ELSE NoDuration

\* log: _start_times after the call
StartTimes(l, case_id, what) ==
    LET key == ActionKey(case_id, what)
        others == { s \in l.start_times : s.key # key }
    IN  IF what.status \in {"success", "error", "warning"} THEN others
        ELSE IF what.status = "started"
        THEN others \cup { [key |-> key, at |-> l.calls + 1] }
        ELSE l.start_times

\* log: ActivityEntry(...)
ActivityEntry(l, case_id, what, duration_ms) ==
    [case_id |-> case_id, seq |-> l.calls + 1, agent |-> what.agent,
     action |-> what.action, status |-> what.status,
     duration_ms |-> duration_ms]

\* A faulty log that creates the broadcast task before it stores the entry
\* and lets the RuntimeError of a thread without loop escape; C28 rules it
\* out
log_broadcasts_first(l, case_id, what, loop) ==
    LET entry == ActivityEntry(l, case_id, what, DurationMs(l, case_id, what))
    IN  IF l.broadcast_callback # None /\ loop = "no_loop"
        THEN [l EXCEPT !.calls = @ + 1, !.op = Op("log", case_id, loop),
                       !.raised = TRUE, !.returned = NoEntry]
        ELSE [l EXCEPT
                !.start_times = StartTimes(l, case_id, what),
                !.activities[case_id] =
                    [present |-> TRUE, entries |-> Append(@.entries, entry)],
                !.tasks = IF l.broadcast_callback # None /\ loop = "running"
                          THEN Append(@, entry) ELSE @,
                !.calls = @ + 1,
                !.op = Op("log", case_id, loop),
                !.raised = FALSE,
                !.returned = entry]

\* A faulty log that leaves the start time in place when the action
\* completes; C40 rules it out
log_keeps_start(l, case_id, what, loop) ==
    LET entry == ActivityEntry(l, case_id, what, DurationMs(l, case_id, what))
    IN  [l EXCEPT
            !.start_times = IF what.status = "started"
                            THEN StartTimes(l, case_id, what) ELSE @,
            !.activities[case_id] =
                [present |-> TRUE, entries |-> Append(@.entries, entry)],
            !.tasks = IF l.broadcast_callback # None /\ loop = "running"
                      THEN Append(@, entry) ELSE @,
            !.calls = @ + 1,
            !.op = Op("log", case_id, loop),
            !.raised = FALSE,
            !.returned = entry]

\* ActivityLogger.log: the duration is worked out and the start times kept,
\* the entry is stored, then a broadcast task is created when a callback is
\* set and the loop is running; RuntimeError is passed over
log(l, case_id, what, loop) ==
    LET entry == ActivityEntry(l, case_id, what, DurationMs(l, case_id, what))
    IN  [l EXCEPT
            !.start_times = StartTimes(l, case_id, what),
            !.activities[case_id] =
                [present |-> TRUE, entries |-> Append(@.entries, entry)],
            !.tasks = IF l.broadcast_callback # None /\ loop = "running"
                      THEN Append(@, entry) ELSE @,
            !.calls = @ + 1,
            !.op = Op("log", case_id, loop),
            !.raised = FALSE,
            !.returned = entry]

\* ActivityLogger._broadcast, run by the event loop as a task of its own:
\* an exception of the callback ends the task and reaches no caller
broadcast(l) ==
    LET entry == Head(l.tasks)
    IN  [l EXCEPT
            !.tasks = Tail(@),
            !.sent = IF l.broadcast_callback = "manager.broadcast"
                     THEN Append(@, entry) ELSE @,
            !.task_errors = IF l.broadcast_callback = "raising"
                            THEN @ + 1 ELSE @,
            !.op = Op("_broadcast", entry.case_id, None)]

\* ActivityLogger.get_activities
get_activities(l, case_id) ==
    IF l.activities[case_id].present THEN l.activities[case_id].entries
    ELSE <<>>

\* A faulty clear_activities that empties the whole dictionary; C29 rules it
\* out
clear_activities_clears_all(l, case_id) ==
    [l EXCEPT
        !.activities = [c \in LogCases |->
                           [present |-> FALSE, entries |-> <<>>]],
        !.op = Op("clear_activities", case_id, None)]

\* ActivityLogger.clear_activities
clear_activities(l, case_id) ==
    [l EXCEPT
        !.activities[case_id] = [present |-> FALSE, entries |-> <<>>],
        !.op = Op("clear_activities", case_id, None)]

\* The logger is built and no case is in the system
ActivityInit ==
    /\ AtRest
    /\ calc = NoCalc

SetBroadcastCallback(callback) ==
    /\ callback # logger.broadcast_callback
    /\ logger' = set_broadcast_callback(logger, callback)
    /\ UNCHANGED << sysVars, calc >>

Log(case_id, what, loop) ==
    /\ logger.calls < MaxLogs
    /\ logger' = log(logger, case_id, what, loop)
    /\ UNCHANGED << sysVars, calc >>

\* The event loop runs the oldest broadcast task
RunBroadcast ==
    /\ logger.tasks # <<>>
    /\ logger' = broadcast(logger)
    /\ UNCHANGED << sysVars, calc >>

GetActivities(case_id) ==
    /\ logger' = [logger EXCEPT !.op = Op("get_activities", case_id, None)]
    /\ UNCHANGED << sysVars, calc >>

ClearActivities(case_id) ==
    /\ logger' = clear_activities(logger, case_id)
    /\ UNCHANGED << sysVars, calc >>

ActivityNext ==
    \/ \E callback \in Callbacks : SetBroadcastCallback(callback)
    \/ \E c \in LogCases, loop \in LoopStates : Log(c, Progress, loop)
    \/ RunBroadcast
    \/ \E c \in LogCases : GetActivities(c)
    \/ \E c \in LogCases : ClearActivities(c)

SpecActivity == ActivityInit /\ [][ActivityNext]_vars

\* The actions the agents time: the verifier's and the system's for one
\* case, the verifier's for another case, and another action of the
\* verifier, each differing from the first in one part of the key
TimedActions ==
    { << "c1", "external_verifier", "Verifying" >>,
      << "c2", "external_verifier", "Verifying" >>,
      << "c1", "system", "Verifying" >>,
      << "c1", "external_verifier", "Checking DVS" >> }

\* ActivityStatus
ActivityStatuses == {"started", "in_progress", "success", "warning", "error",
                     "decision"}

\* The agents log their actions under every status; the state of the event
\* loop plays no part in the timing
TimingNext ==
    \E a \in TimedActions, status \in ActivityStatuses :
        Log(a[1], What(a[2], a[3], status), "no_loop")

SpecTiming == ActivityInit /\ [][TimingNext]_vars


\* ------------------------------------------------- ACIPCase: the deadline

\* The business days ACIPCase.__init__ asks _calculate_deadline for
BusinessDays == 15

\* The days a case is created on, counted from a Monday (day 0)
MaxDay == 52

\* datetime.weekday(): Monday = 0, Sunday = 6
Weekday(day) == day % 7

\* A faulty _calculate_deadline that counts calendar days; C39 rules it out
RECURSIVE CalculateDeadline_calendar_days(_, _, _)
CalculateDeadline_calendar_days(deadline, days_added, business_days) ==
    IF days_added >= business_days THEN deadline
    ELSE CalculateDeadline_calendar_days(deadline + 1, days_added + 1,
                                         business_days)

\* ACIPCase._calculate_deadline: the while loop, from datetime.utcnow() and
\* days_added = 0
RECURSIVE CalculateDeadline(_, _, _)
CalculateDeadline(deadline, days_added, business_days) ==
    IF days_added >= business_days THEN deadline
    ELSE CalculateDeadline(deadline + 1,
                           IF Weekday(deadline + 1) < 5 THEN days_added + 1
                           ELSE days_added,
                           business_days)

\* A case is about to be created on some day
DeadlineInit ==
    /\ AtRest
    /\ calc \in { [fn |-> "input", utcnow |-> d, deadline_at |-> None] :
                  d \in 0..MaxDay }

\* ACIPCase(**kwargs) without a deadline_at, as create_case builds it
NewCase ==
    /\ calc.fn = "input"
    /\ calc' = [calc EXCEPT
                   !.fn = "ACIPCase",
                   !.deadline_at = CalculateDeadline(calc.utcnow, 0,
                                                     BusinessDays)]
    /\ UNCHANGED << sysVars, logger >>

DeadlineNext == NewCase

SpecDeadline == DeadlineInit /\ [][DeadlineNext]_vars

\* ------------------------------------------------------------ properties

IsPrefix(a, b) == Len(a) <= Len(b) /\ SubSeq(b, 1, Len(a)) = a
Last(a) == a[Len(a)]
Steps(trail) == { trail[i].step : i \in DOMAIN trail }
Finalizing == {"approve", "reject"}
Terminal == {"approved", "rejected"}

\* C1: once a human action has brought the case to approved or rejected, no
\* later human action changes the case's status.
C1_TerminalIsFinal ==
    [][ ( /\ dbStatus \in Terminal
          /\ dbActions # <<>>
          /\ Last(dbActions).new_status = dbStatus
          /\ dbActions' # dbActions )
        => dbStatus' = dbStatus ]_vars

\* C2: a resume_with_human_input call for an identifier an earlier call
\* resumed ends with the error AlreadyResumed.
C2_SecondResumeRefused ==
    \A i, j \in DOMAIN resumeCalls :
        ( /\ i < j
          /\ resumeCalls[i].id = resumeCalls[j].id
          /\ resumeCalls[i].pending
          /\ resumeCalls[i].error = "none" )
        => resumeCalls[j].error = "AlreadyResumed"

\* C3: a resume_with_human_input call for an identifier that holds no
\* pending checkpoint ends with the error UnknownInstance (NotFound).
C3_UnknownInstanceRefused ==
    \A i \in DOMAIN resumeCalls :
        ~resumeCalls[i].pending
        => resumeCalls[i].error \in {"UnknownInstance", "NotFound"}

\* C4: of the approve / reject decisions submitted for a case that awaits
\* its human decision, at most one takes effect.
C4_OneDecisionTakesEffect ==
    Cardinality({ r \in DOMAIN reqs :
                    /\ reqs[r].pc = "done"
                    /\ reqs[r].action_type \in Finalizing
                    /\ reqs[r].seen = "awaiting_human" }) <= 1

\* C5: when start_case has returned a case that awaits its human decision,
\* a checkpoint is stored under the thread_id of the run.
C5_SuspendedHasCheckpoint ==
    ( /\ wfPc = "interrupted"
      /\ returned.present
      /\ returned.values.status = "awaiting_human" )
    => Pending(StartedThread)

\* C6: every step of a run leaves the audit trail it found as a prefix of
\* the audit trail it leaves: entries are appended, never removed, reordered
\* or modified.
C6_AuditTrailAppendOnly ==
    [][ wfPc' # "idle" => IsPrefix(wf.audit_trail, wf'.audit_trail) ]_vars

\* A resumed run has finished: its trail holds the entries of the run up to
\* the interrupt, the human review and the completion
C6_Witness ==
    /\ wfPc = "END"
    /\ Len(wf.audit_trail) = 6
    /\ wf.audit_trail[5].step = "human_review"

\* C7: once a run has reached END, the last entry of the audit trail in the
\* state the engine returned records the status of that state.
C7_FinalEntryIsReturnedState ==
    (wfPc = "END" /\ returned.present)
    => /\ returned.values.audit_trail # <<>>
       /\ Last(returned.values.audit_trail).step = "workflow_completed"
       /\ Last(returned.values.audit_trail).detail = returned.values.status
       /\ returned.values.final_status = returned.values.status

\* A run a human escalated has finished
C7_Witness ==
    /\ wfPc = "END"
    /\ returned.present
    /\ returned.values.human_decision = "escalate"
    /\ returned.values.status = "escalated"

\* The status changes of the transition table, each with its condition
Transition(s, t) ==
    \/ /\ s.status = "pending" /\ t.status = "processing"
       /\ Steps(t.audit_trail) = {"workflow_started"}
    \/ /\ s.status = "processing" /\ t.status = "verifying"
       /\ t.inspection_result.success
    \/ /\ s.status = "processing" /\ t.status = "awaiting_human"
       /\ t.inspection_result.present /\ ~t.inspection_result.success
    \/ /\ s.status = "verifying" /\ t.status = "compliance_review"
       /\ t.verification_result.present
    \/ /\ s.status = "compliance_review" /\ t.status = "approved"
       /\ t.final_decision = "APPROVE"
    \/ /\ s.status = "compliance_review" /\ t.status = "rejected"
       /\ t.final_decision = "REJECT"
    \/ /\ s.status = "compliance_review" /\ t.status = "awaiting_human"
       /\ t.final_decision = "ESCALATE"
    \/ /\ s.status = "awaiting_human" /\ t.status = "approved"
       /\ s.human_decision = "approve"
    \/ /\ s.status = "awaiting_human" /\ t.status = "rejected"
       /\ s.human_decision = "reject"
    \/ /\ s.status = "awaiting_human" /\ t.status = "escalated"
       /\ s.human_decision = "escalate"

\* C8: during start_case and resume_with_human_input the status of the case
\* changes only along the transition table.
C8_StatusFollowsTable ==
    [][ (wfPc' # "idle" /\ wf'.status # wf.status) => Transition(wf, wf') ]_vars

\* A run went through inspection, verification, the compliance decision and
\* a human rejection
C8_Witness ==
    /\ wfPc = "END"
    /\ wf.verification_result.present
    /\ wf.final_decision = "ESCALATE"
    /\ wf.human_decision = "reject"
    /\ wf.status = "rejected"

PastFailedInspection ==
    /\ wf.inspection_result.present
    /\ ~wf.inspection_result.success
    /\ wfPc \in {"compliance_decision", "human_review", "interrupted",
                 "finalize", "END"}

\* C10: when the inspection failed, the verifier is not invoked: none of its
\* activity is logged, the verification result is the skipped one and the
\* audit trail holds no external_verification entry.
C10_FailedInspectionSkipsVerifier ==
    PastFailedInspection
    => /\ wf.verification_result = SkippedVerification
       /\ "external_verification" \notin Steps(wf.audit_trail)
       /\ \A i \in DOMAIN activities :
             activities[i].agent = "external_verifier"
             => activities[i].action = "Verification Skipped"

\* A run whose extraction failed has been resumed and finished
C10_Witness ==
    /\ PastFailedInspection
    /\ wf.doc.extract # "ok"
    /\ wfPc = "END"

\* assess has returned
Assessed == calc.fn = "assess"

\* _determine_overall_status has returned
Determined == calc.fn = "_determine_overall_status" /\ ~calc.raised

\* C11: whatever the inspection result and the other sub-check results, a
\* verification result with a sanctions hit is decided REJECT with risk
\* level HIGH and confidence 0.99.
C11_SanctionsRejectHigh ==
    (Assessed /\ calc.ver.is_sanctioned)
    => /\ calc.out.decision = "REJECT"
       /\ calc.out.risk_level = "HIGH"
       /\ calc.out.confidence_score = 99

\* A sanctioned customer with every other factor in their favour was assessed
C11_Witness ==
    /\ Assessed
    /\ calc.ver.is_sanctioned /\ ~calc.ver.is_pep
    /\ calc.ver.dvs_verified /\ calc.ver.db_status = "VERIFIED"
    /\ calc.insp.success /\ calc.insp.issues = <<>>
    /\ calc.insp.quality_score >= QualityHigh

\* C12: a PEP hit without a sanctions hit is decided ESCALATE with
\* confidence 0.85 whatever the other factors; a PEP hit together with a
\* sanctions hit is decided REJECT.
C12_HardRulesInOrder ==
    Assessed
    => /\ (calc.ver.is_pep /\ ~calc.ver.is_sanctioned)
          => /\ calc.out.decision = "ESCALATE"
             /\ calc.out.confidence_score = 85
       /\ (calc.ver.is_pep /\ calc.ver.is_sanctioned)
          => calc.out.decision = "REJECT"

\* A customer with both hits was assessed
C12_Witness ==
    /\ Assessed
    /\ calc.ver.is_pep /\ calc.ver.is_sanctioned
    /\ calc.out.decision = "REJECT"

\* C13: assess never returns APPROVE, and returns ESCALATE for every input
\* without a sanctions hit.
C13_NeverApprove ==
    Assessed
    => /\ calc.out.decision # "APPROVE"
       /\ ~calc.ver.is_sanctioned => calc.out.decision = "ESCALATE"

\* A verified low-risk customer was assessed
C13_Witness ==
    /\ Assessed
    /\ calc.ver.overall_status = "VERIFIED"
    /\ calc.out.risk_level = "LOW"
    /\ calc.out.decision = "ESCALATE"

\* The verification passed in full
FullyVerified(ver) ==
    /\ ver.overall_status = "VERIFIED"
    /\ ver.dvs_verified /\ ver.db_status = "VERIFIED"
    /\ ~ver.is_pep /\ ~ver.is_sanctioned

\* C14: with auto-approval enabled a LOW-risk, fully verified input is
\* decided APPROVE; with auto-approval disabled it is decided ESCALATE.
C14_AutoApproveToggle ==
    (Assessed /\ FullyVerified(calc.ver) /\ calc.out.risk_level = "LOW")
    => calc.out.decision = IF calc.auto_approve_low_risk THEN "APPROVE"
                           ELSE "ESCALATE"

\* The score of _calculate_risk_level and the level the thresholds give it
RiskScore(insp, ver) ==
    2 * (DocRiskFactors(insp) + ExtRiskFactors(ver))
    - (DocMitigating(insp) + ExtMitigating(ver))
LevelOfScore(score) ==
    IF score <= -2 THEN "LOW" ELSE IF score > 2 THEN "HIGH" ELSE "MEDIUM"

\* C15: without a sanctions hit and without a PEP hit, the risk level is the
\* one the score 2 x risk factors - mitigating factors gives.
C15_RiskLevelByScore ==
    (Assessed /\ ~calc.ver.is_sanctioned /\ ~calc.ver.is_pep)
    => calc.out.risk_level = LevelOfScore(RiskScore(calc.insp, calc.ver))

\* C16: an ESCALATE no hard rule produced has confidence 0.85 exactly when
\* the overall status is VERIFIED and the risk level is LOW, and 0.70
\* otherwise.
C16_EscalateConfidence ==
    (Assessed /\ ~calc.ver.is_sanctioned /\ ~calc.ver.is_pep)
    => /\ calc.out.decision = "ESCALATE"
       /\ calc.out.confidence_score =
            IF calc.ver.overall_status = "VERIFIED"
               /\ calc.out.risk_level = "LOW"
            THEN 85 ELSE 70

\* A verified customer whose risk level is not LOW was assessed
C16_Witness ==
    /\ Assessed
    /\ ~calc.ver.is_sanctioned /\ ~calc.ver.is_pep
    /\ calc.ver.overall_status = "VERIFIED"
    /\ calc.out.risk_level = "MEDIUM"
    /\ calc.out.confidence_score = 70

\* C17: the overall status follows the precedence sanctions hit, PEP hit,
\* DVS failure, more than two discrepancies, one or two discrepancies,
\* VERIFIED: the first condition that holds decides.
C17_StatusPrecedence ==
    Determined
    => calc.out.overall_status =
         CASE calc.ver.is_sanctioned      -> "FLAGGED"
           [] calc.ver.is_pep             -> "FLAGGED"
           [] ~calc.ver.dvs_verified      -> "NO_MATCH"
           [] calc.ver.discrepancies > 2  -> "NO_MATCH"
           [] calc.ver.discrepancies > 0  -> "PARTIAL_MATCH"
           [] OTHER                       -> "VERIFIED"

\* A PEP hit came with a DVS failure and three discrepancies
C17_Witness ==
    /\ Determined
    /\ ~calc.ver.is_sanctioned /\ calc.ver.is_pep
    /\ ~calc.ver.dvs_verified /\ calc.ver.discrepancies > 2
    /\ calc.out.overall_status = "FLAGGED"

Indicators(ver) == { ver.risk_indicators[i] : i \in DOMAIN ver.risk_indicators }

\* C19: the result carries the sanctions indicator iff there is a sanctions
\* hit, the PEP indicator iff there is a PEP hit, the DVS indicator iff the
\* DVS check failed and DATABASE_DISCREPANCY iff a discrepancy exists.
C19_IndicatorPerHit ==
    Determined
    => /\ "SANCTIONS_MATCH" \in Indicators(calc.out) <=> calc.ver.is_sanctioned
       /\ "PEP_MATCH" \in Indicators(calc.out) <=> calc.ver.is_pep
       /\ "DVS_FAILED" \in Indicators(calc.out) <=> ~calc.ver.dvs_verified
       /\ "DATABASE_DISCREPANCY" \in Indicators(calc.out)
             <=> calc.ver.discrepancies > 0

\* _verify_against_database has returned
Matched == calc.fn = "_verify_against_database"

\* The mapping that compares each of the fields first name, last name, date
\* of birth and identity number
FourFields == {1, 2, 3, 5}

\* The discrepancies reported under a display name
ReportedUnder(display_name) ==
    { i \in DOMAIN calc.out.discrepancies :
        calc.out.discrepancies[i].field = display_name }

\* The four fields are present on both sides, the identity number under both
\* of its names
AllFourPresent ==
    /\ \A i \in FourFields :
          FieldOutcome(calc.extracted, calc.db_data, FieldMappings[i])
             # "skipped"
    /\ calc.extracted.document_number = calc.extracted.id_number

\* The fields that differ beyond the tolerance
Differing ==
    { i \in FourFields :
        FieldOutcome(calc.extracted, calc.db_data, FieldMappings[i])
           = "discrepancy" }

\* The overall status of a verification whose other three checks are clean
StatusOfMatch ==
    DetermineOverallStatus(
        [NoVerification EXCEPT
            !.present = TRUE, !.dvs_verified = TRUE,
            !.db_status = calc.out.status,
            !.discrepancies = Len(calc.out.discrepancies)]).overall_status

\* C18: with the four fields present on both sides, each field is reported
\* at most once, one or two differing fields give PARTIAL_MATCH and only
\* more than two give NO_MATCH.
C18_FourFieldsCounted ==
    (Matched /\ AllFourPresent)
    => /\ \A i \in FourFields :
             Cardinality(ReportedUnder(FieldMappings[i].display_name)) <= 1
       /\ StatusOfMatch =
             CASE Cardinality(Differing) = 0  -> "VERIFIED"
               [] Cardinality(Differing) <= 2 -> "PARTIAL_MATCH"
               [] OTHER                       -> "NO_MATCH"

\* A value that is missing, null or empty
Absent(v) ==
    \/ v.none
    \/ v.s = <<>>
    \/ v.s = <<"n", "u", "l", "l">>
    \/ v.s = <<"N", "o", "n", "e">>

\* The field a mapping compares is absent on one side
AbsentOnASide(i) ==
    \/ Absent(calc.db_data[FieldMappings[i].db_field])
    \/ IF FieldMappings[i].display_name = "ID Number"
       THEN /\ Absent(calc.extracted.document_number)
            /\ Absent(calc.extracted.id_number)
       ELSE Absent(calc.extracted[FieldMappings[i].ext_field])

\* C20: a field that is absent on the extracted side or on the record's
\* side is not in the discrepancy list.
C20_AbsentFieldSkipped ==
    Matched
    => \A i \in DOMAIN FieldMappings :
          AbsentOnASide(i)
          => ReportedUnder(FieldMappings[i].display_name) = {}

\* A record without date of birth was compared with an extraction without
\* first name, and another field was reported
C20_Witness ==
    /\ Matched
    /\ Absent(calc.extracted.first_name) /\ ~Absent(calc.db_data.first_name)
    /\ ~Absent(calc.extracted.dob) /\ Absent(calc.db_data.dob)
    /\ calc.out.discrepancies # <<>>

\* The nodes and end points a run is at once the verification node is past
PastVerification ==
    wfPc \in {"compliance_decision", "human_review", "interrupted", "finalize",
              "END"}

\* The document of the run was read and the case has no customer record
NoCustomerRecord == wf.inspection_result.success /\ ~wf.doc.db

\* C21: a run without customer record whose inspection succeeded does not
\* end in an exception: the verification step returns an overall status with
\* no database discrepancy and the run goes on to its final or suspended
\* state.
C21_NoRecordStillCompletes ==
    NoCustomerRecord
    => /\ wfPc # "raised"
       /\ PastVerification
          => /\ wf.verification_result.present
             /\ wf.verification_result.overall_status
                  \in OverallStatuses \ {"SKIPPED"}
             /\ wf.verification_result.discrepancies = 0

\* The step the graph is about to take is a provider that cannot complete:
\* the vision call or its parse fails inside the inspection, or verify raises
ProviderFails ==
    \/ /\ wfPc = "document_inspection"
       /\ wf.doc.quality >= QualityMin
       /\ wf.doc.extract = "error"
    \/ /\ wfPc = "external_verification"
       /\ wf.inspection_result.success
       /\ VerifyRaises(wf.inspection_result, wf.doc.db)

\* C24: when a provider step cannot complete, the call does not raise: the
\* case is routed to awaiting_human, and the audit entries recorded before
\* the failure are retained.
C24_ProviderFailureAwaitsHuman ==
    [][ (ProviderFails /\ wfPc' # wfPc)
        => /\ wfPc' # "raised"
           /\ wf'.status = "awaiting_human"
           /\ IsPrefix(wf.audit_trail, wf'.audit_trail) ]_vars

\* _is_near_match has returned
NearMatched == calc.fn = "_is_near_match"

JON == <<"J", "O", "N">>
JOHN == <<"J", "O", "H", "N">>
JANE == <<"J", "A", "N", "E">>
SMYTH == <<"S", "M", "Y", "T", "H">>
SMITH == <<"S", "M", "I", "T", "H">>

\* C22: the match of two values is the match of the same values in the
\* other order; JON matches JOHN, SMYTH matches SMITH and JANE does not
\* match JOHN.
C22_SymmetricTolerant ==
    NearMatched
    => /\ calc.out = IsNearMatch(calc.value2, calc.value1)
       /\ (calc.value1 = JON /\ calc.value2 = JOHN) => calc.out
       /\ (calc.value1 = SMYTH /\ calc.value2 = SMITH) => calc.out
       /\ (calc.value1 = JANE /\ calc.value2 = JOHN) => ~calc.out

\* The full name was matched against its nickname
C22_Witness ==
    /\ NearMatched
    /\ calc.value1 = JOHN /\ calc.value2 = JON
    /\ calc.out

\* A field was compared
Compared == calc.fn = "compare"

\* A value after case, whitespace and punctuation normalization
Normal(value) == Squeeze(Strip(Upper(value)))

\* The two values are equal after normalization, within edit distance 2 of
\* each other, or a pair of the nickname table
Equivalent(a, b) ==
    \/ Normal(a) = Normal(b)
    \/ LevenshteinDistance(Normal(a), Normal(b)) <= 2
    \/ << Normal(a), Normal(b) >> \in CommonNames

\* C23: two present values that are equivalent are a match and not a
\* discrepancy, whatever their length.
C23_EquivalentValuesMatch ==
    (Compared /\ Equivalent(calc.value1, calc.value2))
    => calc.out = "matched"

\* The action types that are a human decision on the case
Decisions == {"approve", "reject", "escalate"}

\* Request r is a decision whose handler loaded the case in a status other
\* than awaiting_human, and the case is not awaiting its decision now
DecisionOutsideReview(r) ==
    /\ reqs[r].pc = "selected"
    /\ reqs[r].action_type \in Decisions
    /\ reqs[r].seen # "awaiting_human"
    /\ dbStatus # "awaiting_human"

\* C25: a decision submitted for a case that is not awaiting human input is
\* refused, and the status, the action rows and the audit rows of the case
\* are left as they were.
C25_DecisionOutsideReviewRefused ==
    [][ \A r \in DOMAIN reqs :
          (DecisionOutsideReview(r) /\ reqs'[r].pc # "selected")
          => /\ reqs'[r].pc \in {"http_400", "failed"}
             /\ UNCHANGED << dbStatus, dbActions, dbAudit >> ]_vars

\* C26: a step in which a human decision changes the status of the case
\* appends exactly one audit entry, and the entry records that decision.
C26_OneAuditEntryPerDecision ==
    [][ (dbActions' # dbActions /\ dbStatus' # dbStatus)
        => /\ Len(dbAudit') = Len(dbAudit) + 1
           /\ SubSeq(dbAudit', 1, Len(dbAudit)) = dbAudit
           /\ Last(dbAudit') = Entry("Action", Last(dbActions').action_type)
      ]_vars

\* C27: once a run holds an inspection, verification or decision result,
\* every later step of the run, a resumed one included, leaves that result
\* as it is.
C27_ResultsKept ==
    [][ wfPc' # "idle"
        => /\ wf.inspection_result.present
              => wf'.inspection_result = wf.inspection_result
           /\ wf.verification_result.present
              => wf'.verification_result = wf.verification_result
           /\ wf.compliance_result.present
              => wf'.compliance_result = wf.compliance_result ]_vars

\* A run that went through the three providers was resumed by a human and
\* finalized, and holds the three results
C27_Witness ==
    /\ wfPc = "END"
    /\ wf.human_decision \in HumanDecisions
    /\ wf.inspection_result.success
    /\ wf.verification_result.present
    /\ wf.verification_result.overall_status # "SKIPPED"
    /\ wf.compliance_result.present

\* The step is a log call
LogStep == logger'.calls # logger.calls

\* The step is a broadcast task run by the event loop
BroadcastStep == logger'.tasks # logger.tasks /\ ~LogStep

\* C28: a log call stores its entry as the last one of its case and returns
\* it, with or without callback and whatever the state of the event loop,
\* and a broadcast task, failing or not, changes neither the stored
\* activities nor what the call returned nor the state of the cases.
C28_LogStoresAndReturns ==
    [][ /\ LogStep
           => /\ ~logger'.raised
              /\ logger'.returned
                   = [logger'.returned EXCEPT
                         !.case_id = logger'.op.case_id,
                         !.seq = logger'.calls]
              /\ logger'.returned # NoEntry
              /\ get_activities(logger', logger'.op.case_id)
                   = Append(get_activities(logger, logger'.op.case_id),
                            logger'.returned)
        /\ BroadcastStep
           => /\ logger'.activities = logger.activities
              /\ logger'.raised = logger.raised
              /\ logger'.returned = logger.returned
              /\ UNCHANGED sysVars ]_vars

\* A broadcast task has failed, and a log call made with a callback set in
\* a thread without event loop has stored and returned its entry
C28_Witness ==
    /\ logger.task_errors > 0
    /\ logger.op.fn = "log" /\ logger.op.loop = "no_loop"
    /\ logger.broadcast_callback # None
    /\ ~logger.raised
    /\ Last(get_activities(logger, logger.op.case_id)) = logger.returned

\* The entries are those of the case, in the order of the log calls
InLogOrder(entries, case_id) ==
    /\ \A i \in DOMAIN entries : entries[i].case_id = case_id
    /\ \A i, j \in DOMAIN entries : i < j => entries[i].seq < entries[j].seq

\* C29: the activities of a case are in the order they were logged, and a
\* call for one case (log, clear or the broadcast of its entry) leaves the
\* activities returned for every other case as they were.
C29_NoCrossCaseInterference ==
    [][ /\ \A c \in LogCases : InLogOrder(get_activities(logger', c), c)
        /\ \A c \in LogCases :
              c # logger'.op.case_id
              => get_activities(logger', c) = get_activities(logger, c)
      ]_vars

\* One case was cleared after entries were logged for both cases, and the
\* other case holds its two entries
C29_Witness ==
    /\ logger.op.fn = "clear_activities" /\ logger.op.case_id = "c2"
    /\ logger.calls = MaxLogs
    /\ Len(get_activities(logger, "c1")) = 2
    /\ get_activities(logger, "c1")[1].seq = 1
    /\ get_activities(logger, "c1")[2].seq = MaxLogs

\* An extractor has returned the data of the document
Extracted == calc.fn \in {"_extract_data", "_normalize_fields"}

\* The value is an identity number: a string that is not empty and does not
\* spell null
IsNumber(v) == Truthy(v) /\ v.s \notin {"null", "None"}

\* C30: when the model returned the identity number under document_number,
\* license_number or passport_number, the data the extractor returns holds
\* an identity number under id_number.
C30_IdNumberCanonical ==
    ( /\ Extracted
      /\ \/ IsNumber(calc.data.document_number)
         \/ IsNumber(calc.data.license_number)
         \/ IsNumber(calc.data.passport_number) )
    => IsNumber(calc.out.id_number)

\* ------------------------------------------------------------------- C31

\* The document and the customer record carry the same person: the three
\* personal fields are present and equal, and the document gives the
\* record's identity number under document_number, id_number or both
Identical(extracted, db_data) ==
    /\ \A f \in {"first_name", "last_name", "dob"} :
          ~RawMissing(extracted[f]) /\ extracted[f] = db_data[f]
    /\ ~RawMissing(db_data.id_number)
    /\ \A f \in {"document_number", "id_number"} :
          extracted[f].none \/ extracted[f] = db_data.id_number
    /\ \E f \in {"document_number", "id_number"} : ~extracted[f].none

VerifiedThenAssessed == calc.fn = "verify_then_assess"

WriteBack == bgPc = "selected" /\ bgPc' = "done"

\* C32: a case a human approved or rejected while the background pipeline
\* was still running keeps that status: the pipeline's write-back of its
\* result does not overwrite the human's terminal decision
C32_WriteBackKeepsHumanDecision ==
    [][(WriteBack /\ dbStatus \in {"approved", "rejected"})
           => dbStatus' = dbStatus]_vars

\* ------------------------------------------------------------------- C33

\* The workflow state records a human decision to approve
HumanApproved(s) ==
    /\ s.human_decision = "approve"
    /\ \E i \in DOMAIN s.audit_trail :
          s.audit_trail[i] = Entry("human_review", "approve")

\* The case_actions table records a human approval of the case
ApprovalRecorded ==
    \E i \in DOMAIN dbActions :
        /\ dbActions[i].action_type = "approve"
        /\ dbActions[i].new_status = "approved"

FinalStatuses == {"approved", "rejected", "escalated"}

\* C34: whenever the workflow has finalized, directly after the compliance
\* decision or after a human decision of any value, the status of the case
\* and the final_status of the workflow_completed audit entry are one of
\* approved, rejected, escalated
C34_FinalizedIsTerminal ==
    (wfPc = "END" /\ Last(wf.audit_trail).step = "workflow_completed")
        => /\ wf.status \in FinalStatuses
           /\ wf.final_status \in FinalStatuses
           /\ Last(wf.audit_trail).detail \in FinalStatuses

\* ------------------------------------------------------------------- C35

\* A request to approve or reject whose notes are missing or blank is
\* answered
AnsweredWithoutNotes(r) ==
    /\ reqs[r].pc = "selected"
    /\ reqs'[r].pc # "selected"
    /\ reqs[r].action_type \in Finalizing
    /\ reqs[r].notes_blank

\* C35: every human action that moves a case to approved or rejected, single
\* or bulk, is recorded with non-blank notes; an approve or reject request
\* without non-blank notes is refused and changes neither the case nor the
\* action records
C35_DecisionsCarryNotes ==
    [][/\ \A i \in DOMAIN dbActions' :
             dbActions'[i].new_status \in Terminal
                 => ~dbActions'[i].notes_blank
       /\ \A r \in 1..MaxRequests :
             AnsweredWithoutNotes(r)
                 => /\ reqs'[r].pc \in {"http_400", "failed"}
                    /\ UNCHANGED << dbStatus, dbActions >>]_vars

\* ------------------------------------------------------------------- C36

\* A node of the graph other than the Risk Decision step runs
OtherNodeRuns ==
    /\ wfPc \in {"start", "document_inspection", "external_verification",
                 "human_review", "finalize"}
    /\ wfPc' # wfPc

\* C36: the risk classification of the case stays 'unknown' until the Risk
\* Decision step (compliance_decision) runs and is changed by that step
\* only: start, inspection, verification, human review and finalize leave
\* it as it is
C36_RiskSetByDecisionOnly ==
    [][/\ OtherNodeRuns => wf'.risk_level = wf.risk_level
       /\ wf'.risk_level # "unknown"
              => "compliance_decision" \in Steps(wf'.audit_trail)
       /\ ("compliance_decision" \notin Steps(wf.audit_trail)
               /\ wfPc # "idle")
              => wf.risk_level = "unknown"]_vars

C36_Witness ==
    /\ wfPc = "END"
    /\ wf.risk_level \in {"low", "medium", "high"}
    /\ wf.human_decision = "approve"
    /\ Steps(wf.audit_trail)
           = {"workflow_started", "document_inspection",
              "external_verification", "compliance_decision", "human_review",
              "workflow_completed"}

\* ------------------------------------------------------------------- C37

\* The background task of the case ends: its write-back is committed, or
\* its except branch has run
TaskEnds == bgPc \in {"running", "selected"} /\ bgPc' \in {"done", "error"}

\* C37: when the background workflow task of a case has ended, whether the
\* pipeline finished, suspended for human review or raised an error, the
\* case record is no longer pending: it is awaiting_human or a terminal
\* status
C37_EndedTaskLeavesPending ==
    [][TaskEnds => dbStatus' \in {"awaiting_human"} \cup FinalStatuses]_vars

\* ------------------------------------------------------------------- C38

Range(seq) == { seq[i] : i \in DOMAIN seq }

\* A bulk-approve request is answered
BulkAnswered(r) ==
    /\ reqs[r].endpoint = "bulk-approve"
    /\ reqs[r].pc = "selected"
    /\ reqs'[r].pc # "selected"

\* The case_actions rows a step adds
RowsAdded == SubSeq(dbActions', Len(dbActions) + 1, Len(dbActions'))

\* C38: bulk approve partitions its input: every requested case id is in
\* exactly one of the approved and failed lists; a case is approved only if
\* its status was awaiting_human or escalated when the request looked at
\* it; each approved case gets exactly one approve action record with its
\* previous status; and a case reported as failed keeps its status
C38_BulkApprovePartitions ==
    [][\A r \in 1..MaxRequests :
          BulkAnswered(r) =>
              LET approved == Range(reqs'[r].approved)
                  failed == { f.case_id : f \in Range(reqs'[r].failed) }
              IN  /\ approved \cup failed = Range(reqs[r].case_ids)
                  /\ approved \cap failed = {}
                  /\ CaseId \in approved
                         => reqs[r].seen \in {"awaiting_human", "escalated"}
                  /\ Len(RowsAdded) = Len(reqs'[r].approved)
                  /\ \A i \in DOMAIN RowsAdded :
                        /\ RowsAdded[i].action_type = "approve"
                        /\ RowsAdded[i].previous_status = reqs[r].seen
                  /\ CaseId \in failed => dbStatus' = dbStatus]_vars

\* ------------------------------------------------------------------- C39

\* The weekdays (Monday to Friday) after day `from` up to and including
\* day `to`
WeekdaysBetween(from, to) == { d \in (from + 1)..to : Weekday(d) < 5 }

CaseCreated == calc.fn = "ACIPCase"

\* C39: the deadline of a newly created case is exactly 15 business days
\* after its creation: it falls on a weekday, and exactly 15 weekdays lie
\* after the creation day up to and including the deadline day, whatever
\* weekday the case is created on
C39_DeadlineFifteenBusinessDays ==
    CaseCreated
        => /\ Weekday(calc.deadline_at) < 5
           /\ Cardinality(WeekdaysBetween(calc.utcnow, calc.deadline_at)) = 15

\* A case created on a Saturday is due on the Friday three weeks later
C39_Witness ==
    /\ CaseCreated
    /\ Weekday(calc.utcnow) = 5
    /\ calc.deadline_at = calc.utcnow + 20

\* ------------------------------------------------------------------- C40

\* Every entry logged, of every case
AllEntries ==
    UNION { { get_activities(logger, c)[i] :
                i \in DOMAIN get_activities(logger, c) } : c \in LogCases }

SameKey(a, b) ==
    a.case_id = b.case_id /\ a.agent = b.agent /\ a.action = b.action

Completions == {"success", "error", "warning"}

\* A STARTED entry with the key of e was logged before e and no completion
\* with that key was logged in between
StartPending(e) ==
    \E s \in AllEntries :
        /\ s.seq < e.seq
        /\ SameKey(s, e)
        /\ s.status = "started"
        /\ ~\E c \in AllEntries :
               /\ s.seq < c.seq
               /\ c.seq < e.seq
               /\ SameKey(c, e)
               /\ c.status \in Completions

\* C40: a SUCCESS, ERROR or WARNING entry carries a duration if and only if
\* a STARTED entry with the same (case, agent, action) key was logged
\* earlier and not yet completed; the completion consumes the pending start,
\* and STARTED, IN_PROGRESS and DECISION entries carry no duration and leave
\* the pending starts as they are
C40_DurationIffPendingStart ==
    \A e \in AllEntries :
        IF e.status \in Completions
        THEN ~e.duration_ms.none <=> StartPending(e)
        ELSE e.duration_ms.none

\* An action was started, completed with a duration and completed again
\* without one
C40_Witness ==
    /\ logger.calls = MaxLogs
    /\ \E e, f \in AllEntries :
          /\ SameKey(e, f)
          /\ e.seq < f.seq
          /\ e.status = "success" /\ ~e.duration_ms.none
          /\ f.status \in Completions /\ f.duration_ms.none
          /\ StartPending(e)

====
